---- MODULE Spec2Model ----
(***************************************************************************)
(* Verification model of the impulse-purchase decision service            *)
(* (backend/app.py, backend/memory.py, backend/inference_engine.py).      *)
(*                                                                         *)
(* The module holds several specifications over one set of variables:     *)
(*   SpecGateway   MemoryEngine._call_gemini_api, one loop iteration per   *)
(*                 step                                                    *)
(*   SpecKernel    ImpulseInferenceEngine.get_intervention_level           *)
(*   SpecScore     ImpulseInferenceEngine.__init__ and calculate_p_impulse *)
(*                 over baselines and telemetry                            *)
(*   SpecPipeline  pipeline_analyze serving one request: fast stage,       *)
(*                 retrieval, reasoner, memory mutator, response           *)
(*   SpecMemory    two mutator calls, a consolidation sweep and a later    *)
(*                 request interleaved on one event loop                   *)
(*   SpecAppend    _simple_append_update applied again and again to one    *)
(*                 content                                                 *)
(*   SpecStore     the memory directory and the index under the mutator    *)
(*                 with failing I/O, reset, reindex and retrieval          *)
(*   SpecWritePath apply_memory_update choosing between the append and    *)
(*                 the LLM refinement                                      *)
(*   SpecChunk     _chunk_markdown on sections of short and long lines     *)
(*   SpecRouter    _determine_target_file on update texts                  *)
(* SpecGatewayFair is SpecGateway with the loop step weakly fair.          *)
(* Each specification parks the variables of the other components.        *)
(*                                                                         *)
(* Numbers: scores and confidences are fixed-point, in thousandths        *)
(* (0.3 is 300).  Sleeps are whole seconds.                                *)
(***************************************************************************)
EXTENDS Integers, Sequences, FiniteSets, TLC

VARIABLES
    gw_pc,        \* _call_gemini_api: "idle" | "running" | "returned" | "raised"
    gw_attempt,   \* 1-based position of the for loop in delays (attempt + 1)
    gw_last,      \* last_exception: "none" or the error caught last
    gw_log,       \* one entry per loop iteration: what was sent, answered, slept
    gw_result,    \* the value returned or the error raised
    k_pc,         \* kernel call: "idle" | "input" | "done", or of a kernel
                  \*   being built: "new" | "built" | "failed" | "scored" |
                  \*   "raised"
    k_p,          \* the score handed to get_intervention_level
    k_level,      \* the level it returned
    k_baseline,   \* the baseline_data a kernel is constructed with
    k_data,       \* the current_data handed to calculate_p_impulse
    files,        \* the memory directory: file name -> content
    pl_pc,        \* pipeline_analyze: "import" | "down" | "idle" | "scored" |
                  \*   "retrieved" | "reasoned" | "applied" | "responded"
    pl_config,    \* the deployment: fast_brain's baseline, memory_engine or None
    pl_req,       \* the PipelineRequest being served
    pl_fast,      \* the fast stage's outputs
    pl_snippets,  \* what retrieve_context returned
    pl_outcome,   \* the outcome of the reasoner's gateway call
    pl_verdict,   \* what reason_with_gemini returned
    pl_applied,   \* the updates apply_memory_update was called with
    pl_response,  \* the HTTP response
    m_pc,         \* per concurrent request: "idle" | "refining" | "returned"
    m_update,     \* per concurrent request: the update its mutator was given
    m_read,       \* per concurrent request: current_content, as it read it
    m_committed,  \* updates written by a mutator call that has returned
    sw_pc,        \* consolidate_memory: "idle" | "awaiting" | "done"
    sw_at,        \* its position in memory_files
    sw_read,      \* the content it read at that position
    m_seen,       \* what a request initiated later read, and what it must see
    memory_engine, \* the memory engine: its index and its bookkeeping
    backups,      \* the .backup files of the memory directory
    dir_entries,  \* the other entries of the memory directory
    st_last,      \* the last handler that ran on the directory and its result
    st_ops,       \* how many handlers ran
    ap_content,   \* a file content under repeated _simple_append_update
    ap_prev,      \* the content before the last call
    ap_n,         \* how many calls were made
    wp_last,      \* the last apply_memory_update call: what it read, what the
                  \*   LLM answered, what it wrote
    ch_content,   \* a markdown content handed to _chunk_markdown
    ch_chunks,    \* whether it returned, and the chunks it returned
    rt_update,    \* an update text handed to _determine_target_file
    rt_target     \* the file name it returned

gwVars == <<gw_pc, gw_attempt, gw_last, gw_log, gw_result>>
kVars == <<k_pc, k_p, k_level, k_baseline, k_data>>
plVars == <<pl_pc, pl_config, pl_req, pl_fast, pl_snippets, pl_outcome,
            pl_verdict, pl_applied, pl_response>>

mVars == <<m_pc, m_update, m_read, m_committed, sw_pc, sw_at, sw_read, m_seen>>
stVars == <<memory_engine, backups, dir_entries, st_last, st_ops>>
apVars == <<ap_content, ap_prev, ap_n>>
fnVars == <<wp_last, ch_content, ch_chunks, rt_update, rt_target>>
vars == <<gwVars, kVars, plVars, files, mVars, stVars, apVars, fnVars>>

(***************************************************************************)
(* Parked components                                                       *)
(***************************************************************************)

KParked ==
    /\ k_pc = "idle"
    /\ k_p = 0
    /\ k_level = "none"
    /\ k_baseline = "none"
    /\ k_data = "none"

PlParked ==
    /\ pl_pc = "off"
    /\ pl_config = "none"
    /\ pl_req = "none"
    /\ pl_fast = "none"
    /\ pl_snippets = {}
    /\ pl_outcome = "none"
    /\ pl_verdict = "none"
    /\ pl_applied = <<>>
    /\ pl_response = "none"

FilesParked == files = <<>>

MParked ==
    /\ m_pc = <<>>
    /\ m_update = <<>>
    /\ m_read = <<>>
    /\ m_committed = {}
    /\ sw_pc = "off"
    /\ sw_at = 0
    /\ sw_read = <<>>
    /\ m_seen = "none"

StParked ==
    /\ memory_engine = "none"
    /\ backups = <<>>
    /\ dir_entries = {}
    /\ st_last = "none"
    /\ st_ops = 0

ApParked == ap_content = <<>> /\ ap_prev = <<>> /\ ap_n = 0

FnParked ==
    /\ wp_last = "none"
    /\ ch_content = <<>>
    /\ ch_chunks = [returned |-> FALSE, chunks |-> <<>>]
    /\ rt_update = <<>>
    /\ rt_target = "none"

(***************************************************************************)
(* LLM gateway: MemoryEngine._call_gemini_api (memory.py 240-356)          *)
(***************************************************************************)

\* memory.py 266: delays = [2, 5, 10, 20, 40]
delays == <<2, 5, 10, 20, 40>>

\* Values of a Retry-After header the server may send with a 429: absent,
\* a number of seconds, or an HTTP date (which int() cannot parse).
RetryAfterSeconds == {7}
RetryAfterHeaders ==
    {[form |-> "absent", seconds |-> 0], [form |-> "date", seconds |-> 0]}
    \cup {[form |-> "seconds", seconds |-> s] : s \in RetryAfterSeconds}

\* The error-reason field of a 403 body (memory.py 296-313); "OTHER" stands
\* for a body with no ErrorInfo detail or an unlisted reason.
Reasons403 == {"SERVICE_DISABLED", "ACCESS_TOKEN_SCOPE_INSUFFICIENT",
               "PERMISSION_DENIED", "OTHER"}

\* The forms of text the model answers a 200 with (memory.py 332-345).
TextForms == {"raw_json", "fenced_json", "fenced", "not_json"}

\* The JSON values a gateway call can carry in this specification.
GwPayloads == {"v1", "v2"}

\* What one loop iteration meets: the token refresh failing, the transport
\* failing, or a server response.
GwResponses ==
    {[kind |-> "token_error"], [kind |-> "transport"], [kind |-> "http_error"],
     [kind |-> "bad_format"]}
    \cup {[kind |-> "r429", retry_after |-> h] : h \in RetryAfterHeaders}
    \cup {[kind |-> "r403", reason |-> r] : r \in Reasons403}
    \cup {[kind |-> "text", form |-> f, value |-> v] :
             f \in TextForms, v \in GwPayloads}

\* memory.py 273: _get_access_token runs before the request; when it raises
\* no request leaves the process.
GwSendsRequest(resp) == resp.kind # "token_error"

\* memory.py 296-319: the ValueError raised for a 403, by reason.
Error403(reason) ==
    CASE reason = "SERVICE_DISABLED" -> "ServiceDisabled"
      [] reason = "ACCESS_TOKEN_SCOPE_INSUFFICIENT" -> "InsufficientScope"
      [] reason = "PERMISSION_DENIED" -> "PermissionDenied"
      [] OTHER -> "Generic403"

\* memory.py 332-345: json.loads on the raw text, then on the body of a
\* ```json or ``` fence; any other text raises JSONDecodeError.
ParseText(resp) ==
    IF resp.form \in {"raw_json", "fenced_json", "fenced"}
    THEN [ok |-> TRUE, value |-> resp.value]
    ELSE [ok |-> FALSE, value |-> "JSONDecodeError"]

\* memory.py 285: int(response.headers.get('Retry-After', delay * 2)).
\* int() of an HTTP date raises ValueError.
RetryAfter(resp, delay) ==
    CASE resp.retry_after.form = "absent" ->
            [ok |-> TRUE, seconds |-> delay * 2]
      [] resp.retry_after.form = "date" -> [ok |-> FALSE, seconds |-> 0]
      [] OTHER -> [ok |-> TRUE, seconds |-> resp.retry_after.seconds]

\* The outcome of the try body of one iteration (memory.py 271-347):
\*   "return" v | "continue" after sleeping s | "except" e
GwTryBody(resp, delay) ==
    CASE resp.kind = "token_error" ->
            [do |-> "except", error |-> "TokenError", slept |-> 0]
      [] resp.kind = "transport" ->
            [do |-> "except", error |-> "RequestError", slept |-> 0]
      [] resp.kind = "r429" ->
            IF RetryAfter(resp, delay).ok
            THEN [do |-> "continue", error |-> "none",
                  slept |-> RetryAfter(resp, delay).seconds]
            ELSE [do |-> "except", error |-> "ValueError", slept |-> 0]
      [] resp.kind = "r403" ->
            [do |-> "except", error |-> Error403(resp.reason), slept |-> 0]
      [] resp.kind = "http_error" ->
            [do |-> "except", error |-> "HTTPStatusError", slept |-> 0]
      [] resp.kind = "bad_format" ->
            [do |-> "except", error |-> "InvalidResponseFormat", slept |-> 0]
      [] OTHER ->
            IF ParseText(resp).ok
            THEN [do |-> "return", error |-> "none", slept |-> 0]
            ELSE [do |-> "except", error |-> "JSONDecodeError", slept |-> 0]

\* Off-by-one variant of the except clause: sleeps and goes on after the last
\* delay too.
GwExceptRetries_AlsoAfterLast(attempt) == attempt <= Len(delays)

\* memory.py 349-354: the except clause catches every Exception, also the
\* ValueError raised for a 403: sleep(delay) and go on unless this was the
\* last delay.
GwExceptRetries(attempt) == attempt < Len(delays)

\* A `continue` that asks again for the same delay.
GwAfterContinue_SameAttempt(attempt) == attempt

\* memory.py 270 and 284-288: `continue` takes the for loop to the next
\* delay.
GwAfterContinue(attempt) == attempt + 1

\* memory.py 356: after the loop ran out (the last iteration ended in
\* `continue`).
GwAfterLoop(last) == IF last # "none" THEN last ELSE "FailedToCall"

GwInit ==
    /\ gw_pc = "running"
    /\ gw_attempt = 1
    /\ gw_last = "none"
    /\ gw_log = <<>>
    /\ gw_result = "none"
    /\ FnParked
    /\ KParked
    /\ PlParked
    /\ FilesParked
    /\ MParked
    /\ StParked
    /\ ApParked

GwParked ==
    /\ gw_pc = "idle"
    /\ gw_attempt = 1
    /\ gw_last = "none"
    /\ gw_log = <<>>
    /\ gw_result = "none"

\* One iteration of `for attempt, delay in enumerate(delays)`.
GwIteration(resp) ==
    /\ gw_pc = "running"
    /\ gw_attempt <= Len(delays)
    /\ LET delay == delays[gw_attempt]
           out   == GwTryBody(resp, delay)
           last  == gw_attempt = Len(delays)
       IN CASE out.do = "return" ->
                 /\ gw_pc' = "returned"
                 /\ gw_result' = ParseText(resp).value
                 /\ gw_log' = Append(gw_log,
                        [resp |-> resp, sent |-> TRUE, slept |-> 0])
                 /\ UNCHANGED <<fnVars, apVars, stVars, gw_attempt, gw_last>>
            [] out.do = "continue" ->
                 /\ gw_log' = Append(gw_log,
                        [resp |-> resp, sent |-> TRUE, slept |-> out.slept])
                 /\ gw_attempt' = GwAfterContinue(gw_attempt)
                 /\ IF last
                    THEN /\ gw_pc' = "raised"
                         /\ gw_result' = GwAfterLoop(gw_last)
                    ELSE UNCHANGED <<fnVars, apVars, stVars, gw_pc, gw_result>>
                 /\ UNCHANGED gw_last
            [] OTHER ->
                 /\ gw_last' = out.error
                 /\ IF GwExceptRetries(gw_attempt)
                    THEN /\ gw_log' = Append(gw_log,
                               [resp |-> resp, sent |-> GwSendsRequest(resp),
                                slept |-> delay])
                         /\ gw_attempt' = gw_attempt + 1
                         /\ UNCHANGED <<fnVars, apVars, stVars, gw_pc, gw_result>>
                    ELSE /\ gw_log' = Append(gw_log,
                               [resp |-> resp, sent |-> GwSendsRequest(resp),
                                slept |-> 0])
                         /\ gw_pc' = "raised"
                         /\ gw_result' = out.error
                         /\ UNCHANGED gw_attempt
    /\ UNCHANGED <<fnVars, apVars, stVars, kVars, plVars, files, mVars>>

GwStep == \E resp \in GwResponses : GwIteration(resp)

GwNext == GwStep

SpecGateway == GwInit /\ [][GwNext]_vars

\* The call under a scheduler that resumes it: the request has a timeout of
\* 60 seconds (memory.py 269) and every sleep is finite, so an iteration
\* that can run does run.
SpecGatewayFair == GwInit /\ [][GwNext]_vars /\ WF_vars(GwNext)

(***************************************************************************)
(* Scoring kernel: ImpulseInferenceEngine (inference_engine.py)            *)
(*                                                                         *)
(* Fixed point: probabilities, likelihoods and weights in thousandths;     *)
(* z-scores in hundredths; click rates in hundredths of a click per        *)
(* second; multipliers in thousandths (late night) and tenths (website).   *)
(***************************************************************************)

\* app.py 75-90: DEFAULT_BASELINE, the baseline app.py builds fast_brain
\* with (time_to_cart row in tenths of a second).
DEFAULT_BASELINE ==
    [scroll_velocity |-> [mean |-> 600, std |-> 5500],
     click_rate      |-> [mean |-> 15, std |-> 100],
     time_on_site    |-> [mean |-> 180, std |-> 110],
     time_to_cart    |-> [mean |-> 25, std |-> 320]]

\* tests/run_pipeline_demo.py 51-57: SAMPLE_BASELINE, a baseline with the
\* biometric rows.
SAMPLE_BASELINE ==
    [heart_rate       |-> [mean |-> 72, std |-> 10],
     respiration_rate |-> [mean |-> 16, std |-> 3],
     scroll_velocity  |-> [mean |-> 50, std |-> 20],
     click_rate       |-> [mean |-> 200, std |-> 100],
     time_on_site     |-> [mean |-> 180, std |-> 60]]

\* inference_engine.py 136-142: the keys __init__ requires.
required_keys == <<"heart_rate", "respiration_rate", "scroll_velocity",
                   "click_rate", "time_on_site">>

\* inference_engine.py 117-142: __init__ raises ValueError when a required
\* key is missing or lacks mean or std.
EngineInit(baseline_data) ==
    IF \A i \in 1..Len(required_keys) :
          /\ required_keys[i] \in DOMAIN baseline_data
          /\ {"mean", "std"} \subseteq DOMAIN baseline_data[required_keys[i]]
    THEN [ok |-> TRUE, error |-> "none"]
    ELSE [ok |-> FALSE, error |-> "ValueError"]

\* inference_engine.py 52-59: WEIGHTS.
WEIGHTS ==
    [heart_rate |-> 30, respiration_rate |-> 30, scroll_velocity |-> 260,
     emotion_arousal |-> 340, click_rate |-> 170, time_to_cart |-> 170]

\* inference_engine.py 78-83: INTERVENTION_THRESHOLDS.
INTERVENTION_THRESHOLDS ==
    [NONE |-> 300, NUDGE |-> 600, CHALLENGE |-> 800, LOCKOUT |-> 1000]

\* inference_engine.py 144-158.
calculate_z_score(value, mean, std) ==
    IF std = 0 THEN 0 ELSE ((value - mean) * 100) \div std

\* 1000 / (1 + e^(-x)) at x = -7.0, -6.5, ..., 7.0.
SigmoidTable ==
    <<1, 2, 2, 4, 7, 11, 18, 29, 47, 76, 119, 182, 269, 378, 500, 622, 731,
      818, 881, 924, 953, 971, 982, 989, 993, 996, 998, 998, 999>>

\* inference_engine.py 160-173: 1 / (1 + exp(-k z)) with k = SIGMOID_K = 2,
\* read off SigmoidTable at the half unit below k z; exp overflows to inf and
\* underflows to 0 beyond the table, giving 0 and 1.
sigmoid_likelihood(z_score) ==
    LET x == 2 * z_score
    IN IF x < -700 THEN 0
       ELSE IF x >= 750 THEN 1000
       ELSE SigmoidTable[((x + 700) \div 50) + 1]

\* inference_engine.py 175-188, in thousandths: 1.0 + 0.5 (1 - |h - 3| / 2).
get_late_night_multiplier(hour) ==
    IF 1 <= hour /\ hour <= 5
    THEN 1000 + (500 * (2 - (IF hour >= 3 THEN hour - 3 ELSE 3 - hour))) \div 2
    ELSE 1000

\* The hosts of the model, as written by the client.
Websites == {"bestbuy.com", "Amazon.com", "online-casino.com", "test.com",
             "learn.edu"}

\* str.lower on a host.
Lower(website_name) ==
    IF website_name = "Amazon.com" THEN "amazon.com" ELSE website_name

\* `keyword in website_lower` for the keywords of inference_engine.py 86-115
\* and 208-218.
SubstringsOf(website_lower) ==
    CASE website_lower = "bestbuy.com" -> {"bestbuy"}
      [] website_lower = "amazon.com" -> {"amazon"}
      [] website_lower = "online-casino.com" -> {"casino"}
      [] website_lower = "learn.edu" -> {"learn", "edu"}
      [] OTHER -> {}

\* inference_engine.py 86-115: WEBSITE_RISK_FACTORS in dict order, factors
\* in tenths.
WEBSITE_RISK_FACTORS ==
    <<[key |-> "gambling", factor |-> 20], [key |-> "flash_sale", factor |-> 20],
      [key |-> "amazon", factor |-> 15], [key |-> "ebay", factor |-> 15],
      [key |-> "temu", factor |-> 15], [key |-> "shein", factor |-> 15],
      [key |-> "aliexpress", factor |-> 15], [key |-> "target", factor |-> 10],
      [key |-> "walmart", factor |-> 10], [key |-> "bestbuy", factor |-> 10],
      [key |-> "costco", factor |-> 10], [key |-> "wayfair", factor |-> 10],
      [key |-> "macys", factor |-> 10], [key |-> "kohls", factor |-> 10],
      [key |-> "newegg", factor |-> 10], [key |-> "zappos", factor |-> 10],
      [key |-> "nike", factor |-> 10], [key |-> "adidas", factor |-> 10],
      [key |-> "homedepot", factor |-> 10], [key |-> "lowes", factor |-> 10],
      [key |-> "ikea", factor |-> 10], [key |-> "etsy", factor |-> 10],
      [key |-> "educational", factor |-> 5], [key |-> "nonprofit", factor |-> 5]>>

\* inference_engine.py 190-223, factor in tenths.
get_website_risk_factor(website_name) ==
    LET subs == SubstringsOf(Lower(website_name))
        hits == {i \in 1..Len(WEBSITE_RISK_FACTORS) :
                    WEBSITE_RISK_FACTORS[i].key \in subs}
        first == CHOOSE i \in hits : \A j \in hits : i <= j
    IN IF hits # {} THEN WEBSITE_RISK_FACTORS[first].factor
       ELSE IF subs \cap {"casino", "bet", "poker", "gambling", "lottery"} # {}
       THEN 20
       ELSE IF subs \cap {"flash", "limited time", "sale ends", "countdown"} # {}
       THEN 20
       ELSE IF subs \cap {"edu", "university", "school", "course", "learn"} # {}
       THEN 5
       ELSE 10

\* inference_engine.py 225-245, time_to_cart in seconds.
calculate_ttc_likelihood(time_to_cart) ==
    IF time_to_cart <= 0 THEN 1000
    ELSE LET normalized_ttc ==
                 IF time_to_cart >= 300 THEN 1000
                 ELSE (time_to_cart * 1000) \div 300
         IN 1000 - normalized_ttc

\* A clamp that lets every value through.
Clamp01_Unclamped(x) == x

\* inference_engine.py 330 and 343: max(0.0, min(1.0, x)).
Clamp01(x) == IF x < 0 THEN 0 ELSE IF x > 1000 THEN 1000 ELSE x

\* inference_engine.py 267-310 and 445-467: the per-feature likelihoods.
\* current_data.get(key, default) reads the defaults of 267-274 for the keys
\* the caller left out; the default of time_to_cart is infinity, whose
\* likelihood is 1 - min(inf / 300, 1) = 0.
Likelihoods(baseline_data, current_data) ==
    LET get(key, default) ==
            IF key \in DOMAIN current_data THEN current_data[key] ELSE default
        z(key, value) ==
            calculate_z_score(value, baseline_data[key].mean,
                              baseline_data[key].std)
    IN [heart_rate |-> sigmoid_likelihood(z("heart_rate", get("heart_rate", 0))),
        respiration_rate |->
            sigmoid_likelihood(z("respiration_rate", get("respiration_rate", 0))),
        scroll_velocity |->
            sigmoid_likelihood(z("scroll_velocity", get("scroll_velocity_peak", 0))),
        emotion_arousal |-> get("emotion_arousal", 0),
        click_rate |-> sigmoid_likelihood(z("click_rate", get("click_rate", 0))),
        time_to_cart |->
            IF "time_to_cart" \in DOMAIN current_data
            THEN calculate_ttc_likelihood(current_data.time_to_cart)
            ELSE 0]

FeatureOrder == <<"heart_rate", "respiration_rate", "scroll_velocity",
                  "emotion_arousal", "click_rate", "time_to_cart">>

\* The baseline rows calculate_p_impulse and get_structured_output index
\* (inference_engine.py 277-306): a missing row raises KeyError.
RowsRead == {"heart_rate", "respiration_rate", "scroll_velocity", "click_rate"}

\* inference_engine.py 247-343.
calculate_p_impulse(baseline_data, current_data) ==
    IF ~(RowsRead \subseteq DOMAIN baseline_data)
    THEN [ok |-> FALSE, p |-> 0]
    ELSE
      LET L == Likelihoods(baseline_data, current_data)
          weighted_p ==
              (WEIGHTS.heart_rate * L.heart_rate
               + WEIGHTS.respiration_rate * L.respiration_rate
               + WEIGHTS.scroll_velocity * L.scroll_velocity
               + WEIGHTS.emotion_arousal * L.emotion_arousal
               + WEIGHTS.click_rate * L.click_rate
               + WEIGHTS.time_to_cart * L.time_to_cart) \div 1000
          adjusted_p ==
              Clamp01((weighted_p
                       * get_late_night_multiplier(current_data.system_time)
                       * get_website_risk_factor(current_data.website_name))
                      \div 10000)
          numerator == adjusted_p * 200
          denominator == adjusted_p * 200 + (1000 - adjusted_p) * 800
      IN IF denominator = 0 THEN [ok |-> TRUE, p |-> 0]
         ELSE [ok |-> TRUE, p |-> Clamp01((numerator * 1000) \div denominator)]

\* inference_engine.py 345-362.
get_intervention_level(p_score) ==
    IF p_score < INTERVENTION_THRESHOLDS.NONE THEN "NONE"
    ELSE IF p_score < INTERVENTION_THRESHOLDS.NUDGE THEN "NUDGE"
    ELSE IF p_score < INTERVENTION_THRESHOLDS.CHALLENGE THEN "CHALLENGE"
    ELSE "LOCKOUT"

\* inference_engine.py 424-482: get_structured_output's dominant_trigger,
\* max(contributions, key=contributions.get): the first key of the largest
\* contribution.
dominant_trigger(baseline_data, current_data) ==
    LET L == Likelihoods(baseline_data, current_data)
        c(i) == WEIGHTS[FeatureOrder[i]] * L[FeatureOrder[i]]
        best == CHOOSE i \in 1..Len(FeatureOrder) :
                    /\ \A j \in 1..Len(FeatureOrder) : c(j) <= c(i)
                    /\ \A j \in 1..(i - 1) : c(j) < c(i)
    IN FeatureOrder[best]

\* Every score in [0, 1], in thousandths.
KInit ==
    /\ k_pc = "input"
    /\ k_p \in 0..1000
    /\ k_level = "none"
    /\ k_baseline = "none"
    /\ k_data = "none"
    /\ FnParked
    /\ GwParked
    /\ PlParked
    /\ FilesParked
    /\ MParked
    /\ StParked
    /\ ApParked

\* A call of get_intervention_level.
KLevel ==
    /\ k_pc = "input"
    /\ k_level' = get_intervention_level(k_p)
    /\ k_pc' = "done"
    /\ UNCHANGED <<fnVars, apVars, stVars, k_p, k_baseline, k_data, gwVars, plVars, files, mVars>>

KNext == KLevel

SpecKernel == KInit /\ [][KNext]_vars

\* Baselines a kernel can be handed: the two above, SAMPLE_BASELINE with
\* zero deviations, without the std of time_on_site, and without click_rate.
ScoreBaselines ==
    {DEFAULT_BASELINE, SAMPLE_BASELINE,
     [SAMPLE_BASELINE EXCEPT !.scroll_velocity = [mean |-> 50, std |-> 0],
                             !.click_rate = [mean |-> 200, std |-> 0]],
     [SAMPLE_BASELINE EXCEPT !.time_on_site = [mean |-> 180]],
     [heart_rate       |-> [mean |-> 72, std |-> 10],
      respiration_rate |-> [mean |-> 16, std |-> 3],
      scroll_velocity  |-> [mean |-> 50, std |-> 20],
      time_on_site     |-> [mean |-> 180, std |-> 60]]}

\* Telemetry within the type constraints: arousal in [0, 1], click rate and
\* scroll velocity from 0 up, any time_to_cart or none, an hour of the day.
TelemetryWithoutTTC ==
    [emotion_arousal : {0, 500, 1000}, click_rate : {0, 83, 500},
     scroll_velocity_peak : {0, 15000}, system_time : {0, 3, 14, 23},
     website_name : {"test.com", "online-casino.com", "learn.edu"}]

KernelInputs ==
    TelemetryWithoutTTC
    \cup {[time_to_cart |-> ttc] @@ t :
             ttc \in {0 - 5, 0, 3, 400}, t \in TelemetryWithoutTTC}

KsInit ==
    /\ k_pc = "new"
    /\ k_baseline \in ScoreBaselines
    /\ k_data \in KernelInputs
    /\ k_p = 0
    /\ k_level = "none"
    /\ FnParked
    /\ GwParked
    /\ PlParked
    /\ FilesParked
    /\ MParked
    /\ StParked
    /\ ApParked

\* inference_engine.py 117-142: the constructor.
KConstruct ==
    /\ k_pc = "new"
    /\ k_pc' = IF EngineInit(k_baseline).ok THEN "built" ELSE "failed"
    /\ UNCHANGED <<fnVars, apVars, k_p, k_level, k_baseline, k_data, stVars, gwVars, plVars,
                   files, mVars>>

\* inference_engine.py 247-343: a call of calculate_p_impulse on the kernel.
KScore ==
    /\ k_pc = "built"
    /\ LET scored == calculate_p_impulse(k_baseline, k_data)
       IN /\ k_p' = scored.p
          /\ k_pc' = IF scored.ok THEN "scored" ELSE "raised"
    /\ UNCHANGED <<fnVars, apVars, k_level, k_baseline, k_data, stVars, gwVars, plVars, files,
                   mVars>>

KsNext == KConstruct \/ KScore

SpecScore == KsInit /\ [][KsNext]_vars

(***************************************************************************)
(* Memory store: text, files and the pure parts of MemoryEngine            *)
(*                                                                         *)
(* A text is a sequence of tokens (pieces of a string); a file content is  *)
(* the sequence of its lines, content.split('\n').  A line is a record     *)
(*   [kind |-> "h1" | "h2" | "bullet" | "blank" | "para", text |-> tokens] *)
(* for "# text", "## text", "- text", "" and any other line.               *)
(***************************************************************************)

\* memory.py 919-921: the placeholder of the templates.
PLACEHOLDER == "[No patterns recorded yet]"

\* The timestamp written by datetime.now().strftime (memory.py 1039); the
\* model keeps one value for every instant.
TIMESTAMP == "<timestamp>"

Whitespace == {" ", "\n"}

H1(title) == [kind |-> "h1", text |-> <<title>>]
H2(title) == [kind |-> "h2", text |-> <<title>>]
Bullet(text) == [kind |-> "bullet", text |-> text]
Blank == [kind |-> "blank", text |-> <<>>]

\* str.strip on a text: leading and trailing whitespace tokens removed.
RECURSIVE LStrip(_)
LStrip(text) ==
    IF text # <<>> /\ Head(text) \in Whitespace THEN LStrip(Tail(text)) ELSE text

RECURSIVE RStrip(_)
RStrip(text) ==
    IF text # <<>> /\ text[Len(text)] \in Whitespace
    THEN RStrip(SubSeq(text, 1, Len(text) - 1))
    ELSE text

Strip(text) == RStrip(LStrip(text))

\* str.lower on a token.
LowerToken(tok) ==
    CASE tok = "Saving for" -> "saving for"
      [] tok = "Budget" -> "budget"
      [] OTHER -> tok

\* The router keywords (memory.py 739, 744, 749) that occur in a lowercased
\* token.
KeywordsIn(tok) ==
    CASE tok = "saving for" -> {"saving for"}
      [] tok = "goals" -> {"goal"}
      [] tok = "budget" -> {"budget"}
      [] tok = "over budget" -> {"budget", "over budget"}
      [] tok = "savings" -> {"savings"}
      [] tok = "balance" -> {"balance"}
      [] OTHER -> {}

KeywordsOf(text) ==
    UNION {KeywordsIn(LowerToken(text[i])) : i \in 1..Len(text)}

goal_keywords == {"goal", "objective", "plan", "aspiration", "saving for",
                  "want to", "aim to"}
budget_keywords == {"budget", "limit", "allowance", "exceeded", "over budget",
                    "monthly limit", "category limit"}
state_keywords == {"balance", "account", "income", "savings", "wealth",
                   "financial state", "net worth"}

determine_target_file_BudgetFirst(memory_update) ==
    LET found == KeywordsOf(memory_update)
    IN IF found \cap budget_keywords # {} THEN "Budget.md"
       ELSE IF found \cap goal_keywords # {} THEN "Goals.md"
       ELSE IF found \cap state_keywords # {} THEN "State.md"
       ELSE "Behavior.md"

\* memory.py 720-755.
determine_target_file(memory_update) ==
    LET found == KeywordsOf(memory_update)
    IN IF found \cap goal_keywords # {} THEN "Goals.md"
       ELSE IF found \cap budget_keywords # {} THEN "Budget.md"
       ELSE IF found \cap state_keywords # {} THEN "State.md"
       ELSE "Behavior.md"

\* memory.py 966: the markers of a placeholder bullet, by token.
MarkersIn(tok) ==
    CASE tok = PLACEHOLDER -> {"[No "}
      [] tok = "[No recent changes]" -> {"[No "}
      [] tok = "[ ] Set your savings goals here" -> {"[ ]"}
      [] tok = "[ ] Reduce impulse purchases" -> {"[ ]"}
      [] tok = "[ ] Build better spending habits" -> {"[ ]"}
      [] tok = "Dedicated savings for fun purchases: $[AMOUNT]" -> {"[AMOUNT]"}
      [] tok = "Savings Account: $[AMOUNT]" -> {"[AMOUNT]"}
      [] tok = "Checking Account: $[AMOUNT]" -> {"[AMOUNT]"}
      [] tok = "Monthly Income: $[AMOUNT]" -> {"[AMOUNT]"}
      [] OTHER -> {}

HasMarker(line) == \E i \in 1..Len(line.text) : MarkersIn(line.text[i]) # {}

\* '[No patterns recorded yet]' in line.
HasPlaceholder(line) == \E i \in 1..Len(line.text) : line.text[i] = PLACEHOLDER

\* line.strip().startswith('- ').
IsBulletLine(line) == line.kind = "bullet"

\* "## Observed Behaviors" in line.
IsObservedHeader(line) == line.kind = "h2" /\ line.text = <<"Observed Behaviors">>

\* memory.py 960-968.
count_observations(content) ==
    Cardinality({i \in 1..Len(content) :
                    IsBulletLine(content[i]) /\ ~HasMarker(content[i])})

\* memory.py 926-935: the bullets of the Observed Behaviors section, counted
\* from its header to the next line starting with '##'.
RECURSIVE BehaviorCount(_, _, _)
BehaviorCount(content, i, in_behavior_section) ==
    IF i > Len(content) THEN 0
    ELSE IF IsObservedHeader(content[i]) THEN BehaviorCount(content, i + 1, TRUE)
    ELSE IF content[i].kind = "h2" /\ in_behavior_section THEN 0
    ELSE (IF in_behavior_section /\ IsBulletLine(content[i])
             /\ ~HasPlaceholder(content[i])
          THEN 1 ELSE 0)
         + BehaviorCount(content, i + 1, in_behavior_section)

\* memory.py 920-923: str.replace of "- [No patterns recorded yet]" by
\* "- <new_observation>", at every occurrence.
ReplacePlaceholder(content, new_observation) ==
    [i \in 1..Len(content) |->
        IF IsBulletLine(content[i]) /\ content[i].text # <<>>
           /\ Head(content[i].text) = PLACEHOLDER
        THEN Bullet(new_observation \o Tail(content[i].text))
        ELSE content[i]]

\* memory.py 941-950: the new bullet goes right after the first header.
InsertAfterObservedHeader(content, new_observation) ==
    LET at == CHOOSE i \in 1..Len(content) :
                  /\ IsObservedHeader(content[i])
                  /\ \A j \in 1..(i - 1) : ~IsObservedHeader(content[j])
    IN SubSeq(content, 1, at) \o <<Bullet(new_observation)>>
       \o SubSeq(content, at + 1, Len(content))

\* memory.py 905-955.
simple_append_update(current_content, new_observation) ==
    IF \E i \in 1..Len(current_content) : HasPlaceholder(current_content[i])
    THEN ReplacePlaceholder(current_content, new_observation)
    ELSE IF BehaviorCount(current_content, 1, FALSE) < 5
    THEN IF \E i \in 1..Len(current_content) : IsObservedHeader(current_content[i])
         THEN InsertAfterObservedHeader(current_content, new_observation)
         ELSE current_content
              \o <<Blank, H2("Observed Behaviors"), Bullet(new_observation), Blank>>
    ELSE current_content

\* memory.py 1039-1048: the Last Updated trailer; re.sub rewrites the bullet
\* that follows each "## Last Updated" line.
IsLastUpdated(line) == line.kind = "h2" /\ line.text = <<"Last Updated">>

UpdateTimestamp(content) ==
    IF \E i \in 1..Len(content) : IsLastUpdated(content[i])
    THEN [i \in 1..Len(content) |->
            IF i > 1 /\ IsLastUpdated(content[i - 1]) /\ IsBulletLine(content[i])
            THEN Bullet(<<TIMESTAMP>>)
            ELSE content[i]]
    ELSE content \o <<Blank, H2("Last Updated"), Bullet(<<TIMESTAMP>>)>>

\* content.strip() on a file content: blank lines at both ends removed.
RECURSIVE StripContent(_)
StripContent(content) ==
    IF content = <<>> THEN content
    ELSE IF Head(content).kind = "blank" THEN StripContent(Tail(content))
    ELSE IF content[Len(content)].kind = "blank"
    THEN StripContent(SubSeq(content, 1, Len(content) - 1))
    ELSE content

\* app.py 640-697: MEMORY_TEMPLATES with the timestamp filled in.
MEMORY_TEMPLATES ==
    ("Budget.md" :>
        <<H1("Budget Constraints"), Blank,
          H2("Monthly Spending Limits"), Bullet(<<"Discretionary: $500/month">>),
          Blank,
          H2("Current Month"), Bullet(<<"Spent: $0">>),
          Bullet(<<"Remaining: $500">>), Blank,
          H2("Last Updated"), Bullet(<<TIMESTAMP>>), Blank>>)
    @@ ("Goals.md" :>
        <<H1("Long-term Goals"), Blank,
          H2("Financial Goals"), Bullet(<<"[ ] Set your savings goals here">>),
          Blank,
          H2("Personal Goals & Aspirations"),
          Bullet(<<"[ ] Reduce impulse purchases">>),
          Bullet(<<"[ ] Build better spending habits">>), Blank,
          H2("Last Updated"), Bullet(<<TIMESTAMP>>), Blank>>)
    @@ ("Behavior.md" :>
        <<H1("Spending Patterns"), Blank,
          H2("Observed Behaviors"), Bullet(<<PLACEHOLDER>>), Blank,
          H2("Spending Patterns"), Bullet(<<PLACEHOLDER>>), Blank,
          H2("High-Risk Triggers"),
          Bullet(<<"Late night shopping (after 11 PM)">>),
          Bullet(<<"Flash sale websites">>), Blank,
          H2("Positive Patterns"), Bullet(<<"[None recorded yet]">>), Blank,
          H2("Last Updated"), Bullet(<<TIMESTAMP>>), Blank>>)
    @@ ("State.md" :>
        <<H1("Current Financial State"), Blank,
          H2("Financial Overview"),
          Bullet(<<"Dedicated savings for fun purchases: $[AMOUNT]">>),
          Bullet(<<"Savings Account: $[AMOUNT]">>),
          Bullet(<<"Checking Account: $[AMOUNT]">>),
          Bullet(<<"Monthly Income: $[AMOUNT]">>), Blank,
          H2("Recent Changes"), Bullet(<<"[No recent changes]">>), Blank,
          H2("Last Updated"), Bullet(<<TIMESTAMP>>), Blank>>)

(***************************************************************************)
(* Repeated simple appends: _simple_append_update applied to the content   *)
(* it returned, as on the path that skips the refinement.                  *)
(***************************************************************************)

Observations ==
    <<Bullet(<<"skips reviews">>), Bullet(<<"shops on payday">>),
      Bullet(<<"buys gadgets on impulse">>),
      Bullet(<<"returns half of what arrives">>),
      Bullet(<<"buys late at night">>)>>

\* A Behavior.md with k observations under Observed Behaviors, with or
\* without a placeholder bullet left in that section and in the next one.
BehaviorWith(k, in_observed, in_patterns) ==
    <<H1("Spending Patterns"), Blank, H2("Observed Behaviors")>>
    \o SubSeq(Observations, 1, k)
    \o (IF in_observed THEN <<Bullet(<<PLACEHOLDER>>)>> ELSE <<>>)
    \o <<Blank, H2("Spending Patterns"),
         Bullet(IF in_patterns THEN <<PLACEHOLDER>> ELSE <<"shops on payday">>),
         Blank, H2("Last Updated"), Bullet(<<TIMESTAMP>>), Blank>>

\* The contents the appends start from: Observed Behaviors holds at most
\* five observations, or the file has no such section.
AppendContents ==
    {BehaviorWith(k, in_observed, in_patterns) :
        k \in 0..5, in_observed \in BOOLEAN, in_patterns \in BOOLEAN}
    \cup {MEMORY_TEMPLATES["Behavior.md"], MEMORY_TEMPLATES["Budget.md"]}

AppendUpdates == {<<"prefers sneakers">>, <<"buys on payday">>}

MaxAppends == 3

ApInit ==
    /\ ap_content \in AppendContents
    /\ ap_prev = <<>>
    /\ ap_n = 0
    /\ FnParked
    /\ GwParked
    /\ KParked
    /\ PlParked
    /\ FilesParked
    /\ MParked
    /\ StParked

\* memory.py 905-955: one more call, on the content of the call before.
ApAppend(new_observation) ==
    /\ ap_n < MaxAppends
    /\ ap_content' = simple_append_update(ap_content, new_observation)
    /\ ap_prev' = ap_content
    /\ ap_n' = ap_n + 1
    /\ UNCHANGED <<fnVars, gwVars, kVars, plVars, files, mVars, stVars>>

ApNext == \E new_observation \in AppendUpdates : ApAppend(new_observation)

SpecAppend == ApInit /\ [][ApNext]_vars

(***************************************************************************)
(* Memory mutator: MemoryEngine.apply_memory_update and its helpers        *)
(***************************************************************************)

FileNames == {"Goals.md", "Budget.md", "State.md", "Behavior.md"}

\* The content standing for a file that does not exist (os.path.exists).
NoFile == <<[kind |-> "absent", text |-> <<>>]>>

REFINEMENT_THRESHOLD == 7

\* What the refining LLM may write: the file with the new observation merged
\* in, the same with the oldest observation of the section consolidated away,
\* the file unchanged, nothing, or blank lines only.
RECURSIVE LastObserved(_, _, _, _)
LastObserved(content, i, in_behavior_section, last) ==
    IF i > Len(content) THEN last
    ELSE IF IsObservedHeader(content[i]) THEN LastObserved(content, i + 1, TRUE, last)
    ELSE IF content[i].kind = "h2" /\ in_behavior_section THEN last
    ELSE LastObserved(content, i + 1, in_behavior_section,
                      IF in_behavior_section /\ IsBulletLine(content[i])
                      THEN i ELSE last)

DropOldest(content) ==
    LET at == LastObserved(content, 1, FALSE, 0)
    IN IF at = 0 THEN content
       ELSE SubSeq(content, 1, at - 1) \o SubSeq(content, at + 1, Len(content))

Merged(content, new_observation) ==
    IF \E i \in 1..Len(content) : IsObservedHeader(content[i])
    THEN InsertAfterObservedHeader(content, new_observation)
    ELSE content \o <<Blank, H2("Observed Behaviors"), Bullet(new_observation), Blank>>

RefineContents(current_content, new_observation) ==
    {Merged(current_content, new_observation),
     Merged(DropOldest(current_content), new_observation),
     current_content, <<>>, <<Blank, Blank>>}

\* The outcomes of _call_gemini_api inside _refine_memory_content: it raises,
\* or returns a JSON value: an object holding the content under
\* 'refined_content' or under another accepted key, an object with no such
\* key, or a bare string.
RefineReplies(current_content, new_observation) ==
    {[kind |-> "raise", content |-> <<>>], [kind |-> "nokey", content |-> <<>>]}
    \cup {[kind |-> k, content |-> c] :
            k \in {"refined_content", "content", "string"},
            c \in RefineContents(current_content, new_observation)}

\* memory.py 818-838: the content extracted from the reply (<<>> for None).
ExtractRefined(reply) ==
    CASE reply.kind \in {"refined_content", "content"} -> reply.content
      [] reply.kind = "string" ->
            IF \E i \in 1..Len(reply.content) : reply.content[i].kind \in {"h1", "h2"}
            THEN reply.content ELSE <<>>
      [] OTHER -> <<>>

\* memory.py 857-903: the fallback of _refine_memory_content.
RefineFallback(current_content, new_observation) ==
    LET behavior_count == BehaviorCount(current_content, 1, FALSE)
    IN IF (\E i \in 1..Len(current_content) : HasPlaceholder(current_content[i]))
          /\ behavior_count = 0
       THEN ReplacePlaceholder(current_content, new_observation)
       ELSE IF behavior_count < 5
       THEN Merged(current_content, new_observation)
       ELSE current_content

\* memory.py 757-903.
refine_memory_content(current_content, new_observation, reply) ==
    LET refined_content == ExtractRefined(reply)
    IN IF reply.kind # "raise"
          /\ refined_content # <<>> /\ StripContent(refined_content) # <<>>
          /\ StripContent(refined_content) # StripContent(current_content)
       THEN refined_content
       ELSE RefineFallback(current_content, new_observation)

\* memory.py 1014-1036: the content to write, from the content read.
\* reply is the refining LLM's outcome, used on the refinement path only.
RefinedContent(current_content, memory_update, reply) ==
    IF count_observations(current_content) > REFINEMENT_THRESHOLD
    THEN LET refined_content ==
                 refine_memory_content(current_content, memory_update, reply)
         IN IF StripContent(refined_content) = StripContent(current_content)
            THEN simple_append_update(current_content, memory_update)
            ELSE refined_content
    ELSE simple_append_update(current_content, memory_update)

UsesRefinement(current_content) ==
    count_observations(current_content) > REFINEMENT_THRESHOLD

\* memory.py 970-1123 with one LLM outcome: the result and the files
\* afterwards.
apply_memory_update(store, memory_update, reply) ==
    IF memory_update = <<>> \/ Strip(memory_update) = <<>>
    THEN [ok |-> FALSE, files |-> store]
    ELSE LET target_file == determine_target_file(memory_update)
         IN IF store[target_file] = NoFile
            THEN [ok |-> FALSE, files |-> store]
            ELSE [ok |-> TRUE,
                  files |-> [store EXCEPT ![target_file] =
                      UpdateTimestamp(RefinedContent(store[target_file],
                                                     memory_update, reply))]]

(***************************************************************************)
(* Vector index: MemoryEngine._chunk_markdown, reindex_memory and the      *)
(* Chroma collection.  A chunk is [file, section, part, content]: content  *)
(* is a sequence of lines, part is 0 for a section that was not split.     *)
(***************************************************************************)

\* len(tok.encode('utf-8')); the timestamp is 19 bytes long.
TokenBytes(tok) ==
    CASE tok = "Spending Patterns" -> 17
      [] tok = "Observed Behaviors" -> 18
      [] tok = "High-Risk Triggers" -> 18
      [] tok = "Positive Patterns" -> 17
      [] tok = "Last Updated" -> 12
      [] tok = "Budget Constraints" -> 18
      [] tok = "Monthly Spending Limits" -> 23
      [] tok = "Current Month" -> 13
      [] tok = "Long-term Goals" -> 15
      [] tok = "Financial Goals" -> 15
      [] tok = "Personal Goals & Aspirations" -> 28
      [] tok = "Current Financial State" -> 23
      [] tok = "Financial Overview" -> 18
      [] tok = "Recent Changes" -> 14
      [] tok = "[No patterns recorded yet]" -> 26
      [] tok = "Late night shopping (after 11 PM)" -> 33
      [] tok = "Flash sale websites" -> 19
      [] tok = "[None recorded yet]" -> 19
      [] tok = "Discretionary: $500/month" -> 25
      [] tok = "Spent: $0" -> 9
      [] tok = "Remaining: $500" -> 15
      [] tok = "[ ] Set your savings goals here" -> 31
      [] tok = "[ ] Reduce impulse purchases" -> 28
      [] tok = "[ ] Build better spending habits" -> 32
      [] tok = "Dedicated savings for fun purchases: $[AMOUNT]" -> 46
      [] tok = "Savings Account: $[AMOUNT]" -> 26
      [] tok = "Checking Account: $[AMOUNT]" -> 27
      [] tok = "Monthly Income: $[AMOUNT]" -> 25
      [] tok = "[No recent changes]" -> 19
      [] tok = "skips reviews" -> 13
      [] tok = "shops on payday" -> 15
      [] tok = "buys gadgets on impulse" -> 23
      [] tok = "returns half of what arrives" -> 28
      [] tok = "buys late at night" -> 18
      [] tok = "prefers sneakers" -> 16
      [] tok = "Saving for" -> 10
      [] tok = "a laptop" -> 8
      [] tok = "over budget" -> 11
      [] tok = "this month" -> 10
      [] tok = "5" -> 1
      [] tok = " " -> 1
      [] tok = "\n" -> 1
      [] tok = TIMESTAMP -> 19
      [] tok = "<text of 120 characters>" -> 120
      [] tok = "<text of 499 characters>" -> 499
      [] tok = "<text of 700 characters>" -> 700
      [] OTHER -> 0

RECURSIVE TextBytes(_)
TextBytes(text) ==
    IF text = <<>> THEN 0 ELSE TokenBytes(Head(text)) + TextBytes(Tail(text))

LineBytes(line) ==
    TextBytes(line.text)
    + (CASE line.kind = "h1" -> 2
         [] line.kind = "h2" -> 3
         [] line.kind = "bullet" -> 2
         [] OTHER -> 0)

RECURSIVE LinesBytes(_)
LinesBytes(content) ==
    IF content = <<>> THEN 0 ELSE LineBytes(Head(content)) + LinesBytes(Tail(content))

\* memory.py 1152: len(content.encode('utf-8')), the lines and the newlines
\* between them.
file_size(content) ==
    IF content = <<>> THEN 0 ELSE LinesBytes(content) + Len(content) - 1

MAX_CHUNK_SIZE == 500

\* len(text): the characters of the lines and the newlines between them.
TextLen(lines) == file_size(lines)

Chunk(file_name, section, part, content) ==
    [file |-> file_name, section |-> section, part |-> part, content |-> content]

\* memory.py 394-417: a section longer than MAX_CHUNK_SIZE is cut line by
\* line; st is the loop's state [sub_chunk, sub_chunk_len, part_num, out].
RECURSIVE SplitLines(_, _, _, _, _)
SplitLines(chunk_lines, i, file_name, section, st) ==
    IF i > Len(chunk_lines)
    THEN IF st.sub_chunk # <<>>
         THEN Append(st.out,
                     Chunk(file_name, section,
                           IF st.part_num > 1 THEN st.part_num ELSE 0,
                           StripContent(st.sub_chunk)))
         ELSE st.out
    ELSE LET line_len == LineBytes(chunk_lines[i]) + 1
             cut == st.sub_chunk_len + line_len > MAX_CHUNK_SIZE
                    /\ st.sub_chunk # <<>>
             base == IF cut
                     THEN [sub_chunk |-> <<>>, sub_chunk_len |-> 0,
                           part_num |-> st.part_num + 1,
                           out |-> Append(st.out,
                                     Chunk(file_name, section, st.part_num,
                                           StripContent(st.sub_chunk)))]
                     ELSE st
         IN SplitLines(chunk_lines, i + 1, file_name, section,
                [base EXCEPT !.sub_chunk = Append(base.sub_chunk, chunk_lines[i]),
                             !.sub_chunk_len = base.sub_chunk_len + line_len])

\* memory.py 381-417: add_chunk, giving the chunks it appends.
add_chunk(lines, file_name, section) ==
    LET text == StripContent(lines)
    IN IF text = <<>> THEN <<>>
       ELSE IF TextLen(text) <= MAX_CHUNK_SIZE
       THEN <<Chunk(file_name, section, 0, text)>>
       ELSE SplitLines(text, 1, file_name, section,
                [sub_chunk |-> <<>>, sub_chunk_len |-> 0, part_num |-> 1,
                 out |-> <<>>])

\* line.startswith('#').
IsHeaderLine(line) == line.kind \in {"h1", "h2"}

\* memory.py 419-435: the loop over the lines.
RECURSIVE ChunkLines(_, _, _, _, _)
ChunkLines(content, i, file_name, current_chunk, current_section) ==
    IF i > Len(content)
    THEN IF current_chunk # <<>>
         THEN add_chunk(current_chunk, file_name, current_section)
         ELSE <<>>
    ELSE IF IsHeaderLine(content[i])
    THEN (IF current_chunk # <<>>
          THEN add_chunk(current_chunk, file_name, current_section)
          ELSE <<>>)
         \o ChunkLines(content, i + 1, file_name, <<>>, content[i].text)
    ELSE ChunkLines(content, i + 1, file_name,
                    Append(current_chunk, content[i]), current_section)

\* memory.py 361-437.
chunk_markdown(content, file_name) ==
    ChunkLines(content, 1, file_name, <<>>, <<"Introduction">>)

\* The engine's view of the index: index[f] holds the documents stored under
\* the ids f_0, f_1, ... (in that order), coll_exists tells whether the
\* collection self.collection points to still exists, indexed is _indexed
\* and chunk_ids[f] is the number of ids _chunk_ids records for f (NoIds
\* when it has no key f).
NoIds == 0 - 1

EmptyIndex == [f \in FileNames |-> <<>>]

\* memory.py 167-213: the engine after __init__.
NewEngine ==
    [index |-> EmptyIndex, coll_exists |-> TRUE, indexed |-> FALSE,
     chunk_ids |-> [f \in FileNames |-> NoIds]]

\* memory.py 467-491: the chunks of the files that exist.
FileChunks(store, f) ==
    IF store[f] = NoFile THEN <<>> ELSE chunk_markdown(store[f], f)

ChunksOfStore(store) ==
    ("Goals.md" :> FileChunks(store, "Goals.md"))
    @@ ("Budget.md" :> FileChunks(store, "Budget.md"))
    @@ ("State.md" :> FileChunks(store, "State.md"))
    @@ ("Behavior.md" :> FileChunks(store, "Behavior.md"))

ReindexFaults == {"none", "delete_collection", "create_collection", "read", "add"}

\* memory.py 439-506: reindex_memory with the call that raises (if any); the
\* result and the engine afterwards.  A failed delete_collection is ignored,
\* and create_collection then raises when the collection is still there.
reindex_memory(eng, store, fault) ==
    LET deleted == eng.coll_exists /\ fault # "delete_collection"
        after_delete ==
            IF deleted
            THEN [eng EXCEPT !.index = EmptyIndex, !.coll_exists = FALSE]
            ELSE eng
        created ==
            [after_delete EXCEPT !.coll_exists = TRUE,
                                 !.chunk_ids = [f \in FileNames |-> NoIds]]
        chunks == ChunksOfStore(store)
        tracked ==
            [created EXCEPT !.chunk_ids =
                [f \in FileNames |->
                    IF store[f] = NoFile THEN NoIds ELSE Len(chunks[f])]]
    IN IF after_delete.coll_exists \/ fault = "create_collection"
       THEN [ok |-> FALSE, eng |-> after_delete]
       ELSE IF fault = "read" THEN [ok |-> FALSE, eng |-> created]
       ELSE IF fault = "add" /\ (\E f \in FileNames : chunks[f] # <<>>)
       THEN [ok |-> FALSE, eng |-> tracked]
       ELSE [ok |-> TRUE,
             eng |-> [tracked EXCEPT !.index = chunks, !.indexed = TRUE]]

\* collection.count().
IndexCount(index) ==
    Len(index["Goals.md"]) + Len(index["Budget.md"])
    + Len(index["State.md"]) + Len(index["Behavior.md"])

\* The documents a query filtered on Behavior.md and State.md can return.
Searchable(index) ==
    UNION {{index[f][i] : i \in 1..Len(index[f])} :
              f \in {"Behavior.md", "State.md"}}

\* memory.py 1256: n_results.
N_RESULTS == 3

\* memory.py 550-554: the answers of collection.query, the N_RESULTS nearest
\* documents (all of them when there are fewer); which ones are nearest is
\* the embedding's choice.
QueryResults(index) ==
    LET found == Searchable(index)
        n == IF Cardinality(found) < N_RESULTS
             THEN Cardinality(found) ELSE N_RESULTS
    IN {docs \in SUBSET found : Cardinality(docs) = n}

\* memory.py 528-539 and 569-583: the full-file snippets of the files among
\* names that exist and are not blank.
FullFileSnippets(store, names, source) ==
    {[content |-> StripContent(store[f]), file |-> f,
      section |-> <<"FULL FILE">>, part |-> 0, source |-> source] :
        f \in {g \in names : store[g] # NoFile /\ StripContent(store[g]) # <<>>}}

\* memory.py 527.
critical_files == {"Goals.md", "Budget.md"}

\* Only Behavior.md is read when the similarity search fails.
fallback_files_BehaviorOnly == {"Behavior.md"}

\* memory.py 569.
fallback_files == {"Behavior.md", "State.md"}

\* memory.py 508-587: the snippets retrieve_context returns when the
\* similarity search (the lazy reindex, count and the query) either raises
\* or answers docs.
retrieve_context(store, similarity) ==
    FullFileSnippets(store, critical_files, "direct_read")
    \cup (IF similarity.ok
          THEN {[content |-> c.content, file |-> c.file, section |-> c.section,
                 part |-> c.part, source |-> "similarity_search"] :
                    c \in similarity.docs}
          ELSE FullFileSnippets(store, fallback_files, "fallback_read"))

SimilarityRaises == [ok |-> FALSE, docs |-> {}]

\* memory.py 545-554: the outcomes of the similarity search on engine eng:
\* the engine afterwards and what the search gave.
SimilarityOutcomes(eng, store) ==
    LET lazy == ~eng.indexed \/ IndexCount(eng.index) = 0
        engines == IF lazy
                   THEN {reindex_memory(eng, store, fault).eng :
                            fault \in ReindexFaults}
                   ELSE {eng}
    IN IF eng.indexed /\ ~eng.coll_exists
       THEN {[eng |-> eng, similarity |-> SimilarityRaises]}
       ELSE UNION {
            {[eng |-> e, similarity |-> SimilarityRaises]}
            \cup (IF e.coll_exists
                  THEN {[eng |-> e, similarity |-> [ok |-> TRUE, docs |-> docs]] :
                           docs \in QueryResults(e.index)}
                  ELSE {}) : e \in engines}

(***************************************************************************)
(* Reasoner: MemoryEngine.reason_with_gemini                               *)
(*                                                                         *)
(* A JSON number field of the LLM's reply is [t, v]: t is "missing",       *)
(* "null", "num" (v in thousandths), "numstr" (a string float() parses),   *)
(* "str" (a string it does not parse) or "nan".  A string field is [t, s]  *)
(* and a text field [t, text].                                             *)
(***************************************************************************)

ScoreValues ==
    {[t |-> "missing", v |-> 0], [t |-> "null", v |-> 0],
     [t |-> "num", v |-> -200], [t |-> "num", v |-> 450],
     [t |-> "num", v |-> 1700]}

ConfidenceValues ==
    {[t |-> "missing", v |-> 0], [t |-> "str", v |-> 0],
     [t |-> "numstr", v |-> 900], [t |-> "nan", v |-> 0],
     [t |-> "num", v |-> 1700]}

ReasoningValues == {"missing", "string", "null"}

ActionValues ==
    {[t |-> "missing", s |-> ""], [t |-> "null", s |-> ""]}
    \cup {[t |-> "str", s |-> a] :
            a \in {"NONE", "PHRASE", "mirror", "Cooldown", "NUDGE", ""}}

\* The update texts of the model: routed to Behavior.md, to Goals.md and to
\* Budget.md by their keywords.
UpdateTexts ==
    {<<"buys late at night">>, <<"prefers sneakers">>,
     <<"Saving for", " ", "a laptop">>, <<"over budget", " ", "this month">>}

MemoryUpdateValues ==
    {[t |-> "missing", text |-> <<>>], [t |-> "null", text |-> <<>>],
     [t |-> "str", text |-> <<>>], [t |-> "str", text |-> <<" ", "\n">>],
     [t |-> "str", text |-> <<" ", "buys late at night", "\n">>],
     [t |-> "num", text |-> <<"5">>]}
    \cup {[t |-> "str", text |-> u] : u \in UpdateTexts}

\* The values json.loads can give _call_gemini_api: an object (the numeric
\* fields vary together, and so do the other three), or a value that is no
\* object (a list, a string, a number, null).
WellFormedObject ==
    [top |-> "dict", impulse_score |-> [t |-> "num", v |-> 450],
     confidence |-> [t |-> "numstr", v |-> 900], reasoning |-> "string",
     intervention_action |-> [t |-> "str", s |-> "PHRASE"],
     memory_update |-> [t |-> "null", text |-> <<>>]]

LLMObjects ==
    {[WellFormedObject EXCEPT !.impulse_score = i, !.confidence = c] :
        i \in ScoreValues, c \in ConfidenceValues}
    \cup {[WellFormedObject EXCEPT !.reasoning = r, !.intervention_action = a,
                                   !.memory_update = m] :
            r \in ReasoningValues, a \in ActionValues, m \in MemoryUpdateValues}

NonObject ==
    [top |-> "other", impulse_score |-> [t |-> "missing", v |-> 0],
     confidence |-> [t |-> "missing", v |-> 0], reasoning |-> "missing",
     intervention_action |-> [t |-> "missing", s |-> ""],
     memory_update |-> [t |-> "missing", text |-> <<>>]]

LLMValues == LLMObjects \cup {NonObject}

\* The errors _call_gemini_api raises (memory.py 305-319, 356).
GatewayErrors == {"ValueError: 403", "Exception: retries exhausted"}

GatewayOutcomes ==
    {[kind |-> "raise", error |-> e, value |-> NonObject] : e \in GatewayErrors}
    \cup {[kind |-> "return", error |-> "none", value |-> v] : v \in LLMValues}

NoOutcome == [kind |-> "none", error |-> "none", value |-> NonObject]

\* float(result.get(key, default)): the number, or the exception raised.
Float(field, default) ==
    CASE field.t = "missing" -> [ok |-> TRUE, nan |-> FALSE, v |-> default]
      [] field.t \in {"num", "numstr"} -> [ok |-> TRUE, nan |-> FALSE, v |-> field.v]
      [] field.t = "nan" -> [ok |-> TRUE, nan |-> TRUE, v |-> 0]
      [] OTHER -> [ok |-> FALSE, nan |-> FALSE, v |-> 0]

\* No clamp at all.
ClampUnit_Unclamped(x) == x.v

\* max(0.0, min(1.0, x)); min(1.0, nan) is 1.0 as the comparison is false.
ClampUnit(x) ==
    IF x.nan THEN 1000 ELSE IF x.v > 1000 THEN 1000 ELSE IF x.v < 0 THEN 0 ELSE x.v

\* str.upper on the action strings of the model.
Upper(a) ==
    CASE a = "mirror" -> "MIRROR"
      [] a = "Cooldown" -> "COOLDOWN"
      [] OTHER -> a

\* A fallback that repeats the fast-only response's confidence.
FallbackVerdict_Medium(p_impulse_fast) ==
    [impulse_score |-> p_impulse_fast, confidence |-> 500,
     reasoning |-> [str |-> TRUE, says |-> "Vertex AI unavailable"],
     intervention_action |-> "NONE",
     memory_update |-> [t |-> "null", text |-> <<>>]]

\* memory.py 709-718: the fallback verdict.
FallbackVerdict(p_impulse_fast) ==
    [impulse_score |-> p_impulse_fast, confidence |-> 300,
     reasoning |-> [str |-> TRUE, says |-> "Vertex AI unavailable"],
     intervention_action |-> "NONE",
     memory_update |-> [t |-> "null", text |-> <<>>]]

\* memory.py 689-707: the validation of the reply; ok is FALSE where a
\* statement raises.
ValidateVerdict(p_impulse_fast, result) ==
    LET impulse_score == Float(result.impulse_score, p_impulse_fast)
        confidence == Float(result.confidence, 500)
        action_field == result.intervention_action
        action == IF action_field.t = "missing" THEN "NONE"
                  ELSE Upper(action_field.s)
        memory_update == result.memory_update
    IN IF result.top # "dict" \/ ~impulse_score.ok \/ ~confidence.ok
          \/ action_field.t = "null"
       THEN [ok |-> FALSE, verdict |-> FallbackVerdict(p_impulse_fast)]
       ELSE [ok |-> TRUE,
             verdict |->
               [impulse_score |-> ClampUnit(impulse_score),
                confidence |-> ClampUnit(confidence),
                reasoning |->
                    CASE result.reasoning = "missing" ->
                            [str |-> TRUE, says |-> "Unable to generate reasoning."]
                      [] result.reasoning = "string" ->
                            [str |-> TRUE, says |-> "llm"]
                      [] OTHER -> [str |-> FALSE, says |-> "llm"],
                intervention_action |->
                    IF action \in {"COOLDOWN", "MIRROR", "PHRASE", "NONE"}
                    THEN action ELSE "NONE",
                memory_update |->
                    IF memory_update.t \in {"missing", "null"}
                       \/ (memory_update.t = "str" /\ Strip(memory_update.text) = <<>>)
                    THEN [t |-> "null", text |-> <<>>]
                    ELSE [t |-> "str", text |-> Strip(memory_update.text)]]]

\* memory.py 589-718: `except Exception` turns every error of the gateway
\* call and of the validation into the fallback verdict.
reason_with_gemini(p_impulse_fast, outcome) ==
    IF outcome.kind = "raise" THEN FallbackVerdict(p_impulse_fast)
    ELSE ValidateVerdict(p_impulse_fast, outcome.value).verdict

(***************************************************************************)
(* Pipeline: app.py pipeline_analyze and MemoryEngine.analyze_purchase     *)
(***************************************************************************)

\* A handler that catches ValueError only.
IsException_ValueErrorOnly(error) == error = "ValueError"

\* Python's `except Exception`: the errors of the model are all subclasses
\* of Exception (app.py 970 and 987, memory.py 709).
IsException(error) ==
    error \in {"KeyError", "ValueError", "TypeError", "AttributeError",
               "ValidationError", "RuntimeError", "Exception"}

Baseline(name) ==
    IF name = "DEFAULT_BASELINE" THEN DEFAULT_BASELINE ELSE SAMPLE_BASELINE

\* The deployments: the baseline fast_brain is built with (app.py 120) and
\* whether MemoryEngine() succeeded at import (app.py 61-70).
Configs ==
    [baseline : {"DEFAULT_BASELINE", "SAMPLE_BASELINE"}, memory_engine : BOOLEAN]

\* Requests that pass PipelineRequest's validation (app.py 148-160).
NoTimeToCart == [some |-> FALSE, v |-> 0]
TimeToCart(v) == [some |-> TRUE, v |-> v]

Requests ==
    {[click_count |-> 0, time_on_site |-> 200, time_to_cart |-> NoTimeToCart,
      peak_scroll_velocity |-> 0, system_hour |-> 14, website |-> "test.com"],
     [click_count |-> 50, time_on_site |-> 10, time_to_cart |-> TimeToCart(3),
      peak_scroll_velocity |-> 15000, system_hour |-> 14, website |-> "bestbuy.com"],
     [click_count |-> 50, time_on_site |-> 10, time_to_cart |-> TimeToCart(3),
      peak_scroll_velocity |-> 15000, system_hour |-> 2, website |-> "test.com"],
     [click_count |-> 0, time_on_site |-> 200, time_to_cart |-> TimeToCart(400),
      peak_scroll_velocity |-> 100, system_hour |-> 14, website |-> "Amazon.com"],
     [click_count |-> 50, time_on_site |-> 10, time_to_cart |-> TimeToCart(3),
      peak_scroll_velocity |-> 15000, system_hour |-> 5, website |-> "learn.edu"],
     [click_count |-> 0, time_on_site |-> 10, time_to_cart |-> TimeToCart(3),
      peak_scroll_velocity |-> 15000, system_hour |-> 14, website |-> "Amazon.com"]}

NoRequest ==
    [click_count |-> 0, time_on_site |-> 0, time_to_cart |-> NoTimeToCart,
     peak_scroll_velocity |-> 0, system_hour |-> 0, website |-> "test.com"]

\* app.py 882-906: current_data, with the click rate in hundredths.
CurrentData(request) ==
    [emotion_arousal |-> 500,
     click_rate |-> (request.click_count * 100)
                    \div (IF request.time_on_site > 1 THEN request.time_on_site ELSE 1),
     time_on_site |-> request.time_on_site,
     time_to_cart |-> IF request.time_to_cart.some THEN request.time_to_cart.v
                      ELSE request.time_on_site,
     scroll_velocity_peak |-> request.peak_scroll_velocity,
     system_hour |-> request.system_hour,
     system_time |-> request.system_hour,
     website_name |-> request.website]

\* app.py 908-914: the fast stage; ok is FALSE where it raises KeyError.
FastBrain(baseline_data, request) ==
    LET scored == calculate_p_impulse(baseline_data, CurrentData(request))
    IN IF scored.ok
       THEN [ok |-> TRUE, p |-> scored.p,
             intervention |-> get_intervention_level(scored.p),
             trigger |-> dominant_trigger(baseline_data, CurrentData(request))]
       ELSE [ok |-> FALSE, p |-> 0, intervention |-> "none", trigger |-> "none"]

NoFast == [ok |-> FALSE, p |-> 0, intervention |-> "none", trigger |-> "none"]

NullUpdate == [t |-> "null", text |-> <<>>]

\* app.py 163-175: PipelineResponse's validation of its fields.
PipelineResponseValid(fields) ==
    /\ 0 <= fields.p_impulse_fast /\ fields.p_impulse_fast <= 1000
    /\ 0 <= fields.impulse_score /\ fields.impulse_score <= 1000
    /\ 0 <= fields.confidence /\ fields.confidence <= 1000
    /\ fields.reasoning.str

\* app.py 957-968: the reasoned response.
ReasonedFields(fast, slow_brain_result) ==
    [p_impulse_fast |-> fast.p,
     fast_brain_intervention |-> fast.intervention,
     fast_brain_dominant_trigger |-> fast.trigger,
     impulse_score |-> slow_brain_result.impulse_score,
     confidence |-> slow_brain_result.confidence,
     reasoning |-> slow_brain_result.reasoning,
     intervention_action |-> slow_brain_result.intervention_action,
     memory_update |-> slow_brain_result.memory_update]

\* app.py 976-985: the fast-only response.
FastOnlyFields(fast) ==
    [p_impulse_fast |-> fast.p,
     fast_brain_intervention |-> fast.intervention,
     fast_brain_dominant_trigger |-> fast.trigger,
     impulse_score |-> fast.p,
     confidence |-> 500,
     reasoning |-> [str |-> TRUE, says |-> "Slow Brain unavailable"],
     intervention_action |-> fast.intervention,
     memory_update |-> NullUpdate]

\* The complete fallback with the level name of the old mapping.
CompleteFallbackFields_StaleNudge ==
    [p_impulse_fast |-> 500,
     fast_brain_intervention |-> "NUDGE",
     fast_brain_dominant_trigger |-> "error",
     impulse_score |-> 500,
     confidence |-> 300,
     reasoning |-> [str |-> TRUE, says |-> "Analysis error"],
     intervention_action |-> "NUDGE",
     memory_update |-> NullUpdate]

\* app.py 990-999: the complete fallback.
CompleteFallbackFields ==
    [p_impulse_fast |-> 500,
     fast_brain_intervention |-> "MIRROR",
     fast_brain_dominant_trigger |-> "error",
     impulse_score |-> 500,
     confidence |-> 300,
     reasoning |-> [str |-> TRUE, says |-> "Analysis error"],
     intervention_action |-> "MIRROR",
     memory_update |-> NullUpdate]

Ok200(fields) == [status |-> 200, body |-> fields]

\* An exception that leaves the handler: the framework answers 500.
Propagated == [status |-> 500, body |-> CompleteFallbackFields]

NoResponse == [status |-> 0, body |-> CompleteFallbackFields]

\* app.py 987-999: the outer handler.
OuterExcept(error) ==
    IF IsException(error) /\ PipelineResponseValid(CompleteFallbackFields)
    THEN Ok200(CompleteFallbackFields)
    ELSE Propagated

\* app.py 975-985: the fast-only return, inside the outer try.
FastOnlyReturn(fast) ==
    IF PipelineResponseValid(FastOnlyFields(fast))
    THEN Ok200(FastOnlyFields(fast))
    ELSE OuterExcept("ValidationError")

\* app.py 956-973: the return of the slow path; a ValidationError is caught
\* by the inner handler and falls through to the fast-only return.
SlowReturn(fast, slow_brain_result) ==
    IF PipelineResponseValid(ReasonedFields(fast, slow_brain_result))
    THEN Ok200(ReasonedFields(fast, slow_brain_result))
    ELSE IF IsException("ValidationError") THEN FastOnlyReturn(fast)
    ELSE OuterExcept("ValidationError")

\* Behavior.md after three updates of the template: the first replaced the
\* placeholders, the next two were inserted under the header.
GrownBehavior ==
    <<H1("Spending Patterns"), Blank,
      H2("Observed Behaviors"), Bullet(<<"skips reviews">>),
      Bullet(<<"shops on payday">>), Bullet(<<"buys gadgets on impulse">>), Blank,
      H2("Spending Patterns"), Bullet(<<"buys gadgets on impulse">>), Blank,
      H2("High-Risk Triggers"),
      Bullet(<<"Late night shopping (after 11 PM)">>),
      Bullet(<<"Flash sale websites">>), Blank,
      H2("Positive Patterns"), Bullet(<<"[None recorded yet]">>), Blank,
      H2("Last Updated"), Bullet(<<TIMESTAMP>>), Blank>>

\* The memory directories a request can find: after a reset, with a grown
\* Behavior.md, and with Goals.md deleted.
Stores ==
    {MEMORY_TEMPLATES,
     [MEMORY_TEMPLATES EXCEPT !["Behavior.md"] = GrownBehavior],
     [MEMORY_TEMPLATES EXCEPT !["Goals.md"] = NoFile]}

PlInit ==
    /\ pl_pc = "import"
    /\ pl_config \in Configs
    /\ pl_req = NoRequest
    /\ pl_fast = NoFast
    /\ pl_snippets = {}
    /\ pl_outcome = NoOutcome
    /\ pl_verdict = FallbackVerdict(0)
    /\ pl_applied = <<>>
    /\ pl_response = NoResponse
    /\ files \in Stores
    /\ FnParked
    /\ GwParked
    /\ KParked
    /\ MParked
    /\ StParked
    /\ ApParked

\* app.py 120: the module builds fast_brain at import; a ValueError of
\* __init__ ends the import and the service never starts.
PImport ==
    /\ pl_pc = "import"
    /\ pl_pc' = IF EngineInit(Baseline(pl_config.baseline)).ok THEN "idle" ELSE "down"
    /\ UNCHANGED <<fnVars, apVars, stVars, pl_config, pl_req, pl_fast, pl_snippets, pl_outcome,
                   pl_verdict, pl_applied, pl_response, files, gwVars, kVars, mVars>>

\* What a call of the kernel can do besides its own code: nothing, or raise
\* (tests/test_api.py 365-399 replaces calculate_p_impulse by a function
\* that raises RuntimeError).
KernelErrors == {"none", "RuntimeError"}

\* app.py 875-931 and 975-999: a request arrives and the fast stage runs.
\* An error of the fast stage goes to the outer handler; without a memory
\* engine the handler returns the fast-only response.
PFastBrain(request, kernel_error) ==
    /\ pl_pc = "idle"
    /\ pl_req' = request
    /\ LET fast == IF kernel_error = "none"
                   THEN FastBrain(Baseline(pl_config.baseline), request)
                   ELSE NoFast
           error == IF kernel_error = "none" THEN "KeyError" ELSE kernel_error
       IN /\ pl_fast' = fast
          /\ IF ~fast.ok
             THEN pl_response' = OuterExcept(error) /\ pl_pc' = "responded"
             ELSE IF ~pl_config.memory_engine
             THEN pl_response' = FastOnlyReturn(fast) /\ pl_pc' = "responded"
             ELSE pl_response' = pl_response /\ pl_pc' = "scored"
    /\ UNCHANGED <<fnVars, apVars, stVars, pl_config, pl_snippets, pl_outcome, pl_verdict, pl_applied,
                   files, gwVars, kVars, mVars>>

\* The similarity search of a request whose index holds the chunks of the
\* files: it raises or answers some of them.
PlSimilarities(store) ==
    {SimilarityRaises}
    \cup {[ok |-> TRUE, docs |-> docs] : docs \in QueryResults(ChunksOfStore(store))}

\* memory.py 1255-1256: analyze_purchase retrieves the context.
PRetrieve(similarity) ==
    /\ pl_pc = "scored"
    /\ pl_snippets' = {[file |-> s.file, source |-> s.source] :
                            s \in retrieve_context(files, similarity)}
    /\ pl_pc' = "retrieved"
    /\ UNCHANGED <<fnVars, apVars, stVars, pl_config, pl_req, pl_fast, pl_outcome, pl_verdict,
                   pl_applied, pl_response, files, gwVars, kVars, mVars>>

\* memory.py 1258-1263: the reasoner, with the outcome of its gateway call.
PReason(outcome) ==
    /\ pl_pc = "retrieved"
    /\ pl_outcome' = outcome
    /\ pl_verdict' = reason_with_gemini(pl_fast.p, outcome)
    /\ pl_pc' = "reasoned"
    /\ UNCHANGED <<fnVars, apVars, stVars, pl_config, pl_req, pl_fast, pl_snippets, pl_applied,
                   pl_response, files, gwVars, kVars, mVars>>

\* memory.py 1265-1268: `if memory_update:` calls the mutator, which runs
\* to its return; choice picks what the refining LLM answers on the
\* refinement path.
PApplyUpdate ==
    /\ pl_pc = "reasoned"
    /\ pl_verdict.memory_update.t = "str"
    /\ LET memory_update == pl_verdict.memory_update.text
           target_file == determine_target_file(memory_update)
           replies == IF files[target_file] # NoFile
                         /\ UsesRefinement(files[target_file])
                      THEN RefineReplies(files[target_file], memory_update)
                      ELSE {[kind |-> "raise", content |-> <<>>]}
       IN \E reply \in replies :
            files' = apply_memory_update(files, memory_update, reply).files
    /\ pl_applied' = Append(pl_applied, pl_verdict.memory_update.text)
    /\ pl_pc' = "applied"
    /\ UNCHANGED <<fnVars, apVars, stVars, pl_config, pl_req, pl_fast, pl_snippets, pl_outcome,
                   pl_verdict, pl_response, gwVars, kVars, mVars>>

MutatorDone_NotAwaited ==
    pl_pc \in {"reasoned", "applied"}

\* memory.py 1265-1268: the statements after `if memory_update:` run when the
\* awaited mutator has returned, or at once when the update is None.
MutatorDone ==
    \/ pl_pc = "applied"
    \/ pl_pc = "reasoned" /\ pl_verdict.memory_update.t = "null"

\* memory.py 1270-1277 and app.py 954-985: the result goes back to the
\* handler, which builds the response.
PRespond ==
    /\ MutatorDone
    /\ pl_response' = SlowReturn(pl_fast, pl_verdict)
    /\ pl_pc' = "responded"
    /\ UNCHANGED <<fnVars, apVars, stVars, pl_config, pl_req, pl_fast, pl_snippets, pl_outcome,
                   pl_verdict, pl_applied, files, gwVars, kVars, mVars>>

PlNext ==
    \/ PImport
    \/ \E request \in Requests, kernel_error \in KernelErrors :
          PFastBrain(request, kernel_error)
    \/ \E similarity \in PlSimilarities(files) : PRetrieve(similarity)
    \/ \E outcome \in GatewayOutcomes : PReason(outcome)
    \/ PApplyUpdate
    \/ PRespond

SpecPipeline == PlInit /\ [][PlNext]_vars

(***************************************************************************)
(* Consolidation sweep: MemoryEngine.consolidate_memory                    *)
(***************************************************************************)

CONSOLIDATION_SIZE_THRESHOLD == 2048
CONSOLIDATION_OBSERVATION_THRESHOLD == 10

\* memory.py 1155-1159.
needs_consolidation(content) ==
    \/ file_size(content) > CONSOLIDATION_SIZE_THRESHOLD
    \/ count_observations(content) > CONSOLIDATION_OBSERVATION_THRESHOLD

\* memory.py 1140: the order of the sweep.
memory_files == <<"Goals.md", "Budget.md", "State.md", "Behavior.md">>

\* The first file at or after position i that the sweep sends to the LLM
\* (memory.py 1142-1168): missing files and files below the thresholds are
\* skipped without a suspension; Len + 1 when the loop ends.
RECURSIVE NextToConsolidate(_, _)
NextToConsolidate(store, i) ==
    IF i > Len(memory_files) THEN i
    ELSE IF store[memory_files[i]] # NoFile
            /\ needs_consolidation(store[memory_files[i]])
    THEN i
    ELSE NextToConsolidate(store, i + 1)

\* What the consolidating LLM may answer for a content: an error, an object
\* without 'refined_content', or one holding the content with its oldest
\* observation consolidated away, the content unchanged, nothing, or blank
\* lines.
SweepReplies(content) ==
    {[kind |-> "raise", content |-> <<>>], [kind |-> "nokey", content |-> <<>>]}
    \cup {[kind |-> "refined_content", content |-> c] :
            c \in {DropOldest(content), content, <<>>, <<Blank, Blank>>}}

\* memory.py 1191-1210: the content the sweep writes for a reply, or none.
SweepWrites(reply) ==
    /\ reply.kind = "refined_content"
    /\ reply.content # <<>>
    /\ StripContent(reply.content) # <<>>

\* Behavior.md with eleven observations, three of them under Observed
\* Behaviors.
LargeBehavior ==
    <<H1("Spending Patterns"), Blank,
      H2("Observed Behaviors"), Bullet(<<"skips reviews">>),
      Bullet(<<"shops on payday">>), Bullet(<<"buys gadgets on impulse">>), Blank,
      H2("Spending Patterns"), Bullet(<<"buys gadgets on impulse">>),
      Bullet(<<"shops on payday">>), Bullet(<<"skips reviews">>),
      Bullet(<<"returns half of what arrives">>), Blank,
      H2("High-Risk Triggers"),
      Bullet(<<"Late night shopping (after 11 PM)">>),
      Bullet(<<"Flash sale websites">>), Blank,
      H2("Positive Patterns"), Bullet(<<"[None recorded yet]">>), Blank,
      H2("Last Updated"), Bullet(<<TIMESTAMP>>), Blank>>

(***************************************************************************)
(* Concurrent requests on one event loop: two pipeline requests whose      *)
(* verdicts carry an update, a consolidation sweep and a later request.    *)
(* A coroutine runs without interruption up to its next await of the       *)
(* gateway; the simple-append path of the mutator has none.                *)
(***************************************************************************)

Mutators == {"R1", "R2"}

\* The updates the two verdicts may carry.
MUpdates(r) ==
    IF r = "R1" THEN {<<"buys late at night">>, <<"Saving for", " ", "a laptop">>}
    ELSE {<<"prefers sneakers">>}

MStores ==
    {MEMORY_TEMPLATES,
     [MEMORY_TEMPLATES EXCEPT !["Behavior.md"] = GrownBehavior],
     [MEMORY_TEMPLATES EXCEPT !["Behavior.md"] = LargeBehavior]}

\* The update is one of the bullets of the content.
ContainsUpdate(content, memory_update) ==
    \E i \in 1..Len(content) :
        content[i].kind = "bullet" /\ content[i].text = memory_update

MInit ==
    /\ files \in MStores
    /\ m_pc = [r \in Mutators |-> "idle"]
    /\ m_update = [r \in Mutators |-> <<>>]
    /\ m_read = [r \in Mutators |-> <<>>]
    /\ m_committed = {}
    /\ sw_pc = "idle"
    /\ sw_at = 0
    /\ sw_read = <<>>
    /\ m_seen = [read |-> FALSE, store |-> MEMORY_TEMPLATES, must |-> {}]
    /\ FnParked
    /\ GwParked
    /\ KParked
    /\ PlParked
    /\ StParked
    /\ ApParked

\* The mutator call of r returns after writing new_content to target_file.
MWriteAndReturn(r, target_file, memory_update, new_content) ==
    /\ files' = [files EXCEPT ![target_file] = new_content]
    /\ m_pc' = [m_pc EXCEPT ![r] = "returned"]
    /\ m_committed' = IF ContainsUpdate(new_content, memory_update)
                      THEN m_committed \cup {memory_update}
                      ELSE m_committed

\* memory.py 983-1017 and 1035-1053: apply_memory_update up to its first
\* suspension.  On the simple-append path there is none before the write; on
\* the refinement path the call is suspended in _call_gemini_api holding the
\* content it read.
MApplyStart(r, memory_update) ==
    /\ m_pc[r] = "idle"
    /\ m_update' = [m_update EXCEPT ![r] = memory_update]
    /\ LET target_file == determine_target_file(memory_update)
           current_content == files[target_file]
       IN IF current_content = NoFile
          THEN /\ m_pc' = [m_pc EXCEPT ![r] = "returned"]
               /\ UNCHANGED <<fnVars, apVars, stVars, files, m_read, m_committed>>
          ELSE IF UsesRefinement(current_content)
          THEN /\ m_pc' = [m_pc EXCEPT ![r] = "refining"]
               /\ m_read' = [m_read EXCEPT ![r] = current_content]
               /\ UNCHANGED <<fnVars, apVars, stVars, files, m_committed>>
          ELSE /\ MWriteAndReturn(r, target_file, memory_update,
                     UpdateTimestamp(
                         simple_append_update(current_content, memory_update)))
               /\ UNCHANGED m_read
    /\ UNCHANGED <<fnVars, apVars, stVars, sw_pc, sw_at, sw_read, m_seen, gwVars, kVars, plVars>>

\* memory.py 1018-1053: the gateway call of the refinement ends and the
\* mutator writes what it derived from the content it read before.
MApplyRefined(r) ==
    /\ m_pc[r] = "refining"
    /\ \E reply \in RefineReplies(m_read[r], m_update[r]) :
         MWriteAndReturn(r, determine_target_file(m_update[r]), m_update[r],
             UpdateTimestamp(RefinedContent(m_read[r], m_update[r], reply)))
    /\ UNCHANGED <<fnVars, apVars, stVars, m_update, m_read, sw_pc, sw_at, sw_read, m_seen,
                   gwVars, kVars, plVars>>

\* The sweep runs from position i to its next gateway call or to its end.
SweepRunFrom(store, i) ==
    LET at == NextToConsolidate(store, i)
    IN IF at > Len(memory_files)
       THEN /\ sw_pc' = "done"
            /\ sw_at' = at
            /\ sw_read' = <<>>
       ELSE /\ sw_pc' = "awaiting"
            /\ sw_at' = at
            /\ sw_read' = store[memory_files[at]]

\* memory.py 1129-1192: a sweep starts.
SweepStart ==
    /\ sw_pc = "idle"
    /\ SweepRunFrom(files, 1)
    /\ UNCHANGED <<fnVars, apVars, stVars, files, m_pc, m_update, m_read, m_committed, m_seen,
                   gwVars, kVars, plVars>>

\* memory.py 1191-1230: the gateway call of the sweep ends; it writes the
\* consolidated content and goes on with the next files.
SweepReply ==
    /\ sw_pc = "awaiting"
    /\ \E reply \in SweepReplies(sw_read) :
         LET written == IF SweepWrites(reply)
                        THEN [files EXCEPT ![memory_files[sw_at]] =
                                  UpdateTimestamp(reply.content)]
                        ELSE files
         IN /\ files' = written
            /\ SweepRunFrom(written, sw_at + 1)
    /\ UNCHANGED <<fnVars, apVars, stVars, m_pc, m_update, m_read, m_committed, m_seen,
                   gwVars, kVars, plVars>>

\* memory.py 508-587: a request is initiated and reads the memory files.
MRetrieve ==
    /\ ~m_seen.read
    /\ m_seen' = [read |-> TRUE, store |-> files, must |-> m_committed]
    /\ UNCHANGED <<fnVars, apVars, stVars, files, m_pc, m_update, m_read, m_committed, sw_pc, sw_at,
                   sw_read, gwVars, kVars, plVars>>

MNext ==
    \/ \E r \in Mutators : \E u \in MUpdates(r) : MApplyStart(r, u)
    \/ \E r \in Mutators : MApplyRefined(r)
    \/ SweepStart
    \/ SweepReply
    \/ MRetrieve

SpecMemory == MInit /\ [][MNext]_vars

(***************************************************************************)
(* Memory directory and index: one service with its memory engine, whose   *)
(* handlers run one at a time.  apply_memory_update is taken with its      *)
(* backup, its read-back and its upsert, and with the file-system or index *)
(* call that fails; reset_memory, reindex_memory and retrieve_context act  *)
(* on the same directory and index.                                        *)
(***************************************************************************)

NoBackups == [f \in FileNames |-> NoFile]

\* What a read-back can find instead of the content written: the file
\* without its last line.
Truncated(content) == SubSeq(content, 1, Len(content) - 1)

\* The step of apply_memory_update that fails: the read of the file, the
\* refining LLM's call, the write, the read-back (another content, or no
\* file), the chunking, or the upsert.
ApplyFaults ==
    {"none", "read", "refine", "write", "verify_differs", "verify_missing",
     "chunk", "upsert"}

\* A failing upsert reaches the inner handler too.
InnerHandlerFaults_WithUpsert == {"read", "write", "chunk", "upsert"}

\* memory.py 1005-1116: the faults that raise inside the inner try and reach
\* its handler; a failing upsert is caught before (1102-1105), a read-back
\* that differs raises nothing (1059-1062), and a refinement that raises is
\* caught and replaced by an append (844-848, 1027-1031).
InnerHandlerFaults == {"read", "write", "chunk"}

\* collection.upsert: the documents overwrite the ids f_0.. they are given,
\* the other ids of the file stay.
Upserted(old, chunks) ==
    [i \in 1..(IF Len(old) > Len(chunks) THEN Len(old) ELSE Len(chunks)) |->
        IF i <= Len(chunks) THEN chunks[i] ELSE old[i]]

RestoreBackup_Skipped(store, target_file, on_disk) ==
    [store EXCEPT ![target_file] = on_disk]

\* memory.py 1003-1005 and 1115-1118: the handler copies the backup, taken
\* from the file at the start of the call, over whatever the failed step
\* left on disk.
RestoreBackup(store, target_file, on_disk) ==
    [store EXCEPT ![target_file] = store[target_file]]

\* memory.py 970-1123 on the directory dir = [files, backups] and the engine
\* eng: the result, the directory and the engine afterwards, and the content
\* the call composed (wrote).
apply_memory_update_io(dir, eng, memory_update, reply, fault) ==
    LET same == [ok |-> FALSE, files |-> dir.files, backups |-> dir.backups,
                 eng |-> eng, wrote |-> <<>>]
    IN
    IF memory_update = <<>> \/ Strip(memory_update) = <<>> THEN same
    ELSE LET target_file == determine_target_file(memory_update)
             current_content == dir.files[target_file]
             refined_content ==
                 UpdateTimestamp(RefinedContent(current_content, memory_update,
                                                reply))
             chunks == chunk_markdown(refined_content, target_file)
             on_disk ==
                 CASE fault = "verify_differs" -> Truncated(refined_content)
                   [] fault = "verify_missing" -> NoFile
                   [] OTHER -> refined_content
             upsert_ok == fault # "upsert" /\ eng.coll_exists
             new_eng ==
                 IF chunks # <<>> /\ upsert_ok
                 THEN [eng EXCEPT
                          !.index[target_file] =
                              Upserted(eng.index[target_file], chunks),
                          !.chunk_ids[target_file] = Len(chunks)]
                 ELSE eng
         IN IF current_content = NoFile THEN same
            ELSE IF fault \in InnerHandlerFaults
            THEN \* the inner handler restores the backup and removes it
                 [same EXCEPT !.files =
                                  RestoreBackup(dir.files, target_file,
                                      CASE fault = "read" -> current_content
                                        [] fault = "write" ->
                                              Truncated(refined_content)
                                        [] OTHER -> refined_content),
                              !.backups[target_file] = NoFile,
                              !.wrote = IF fault = "read" THEN <<>>
                                        ELSE refined_content]
            ELSE [ok |-> TRUE,
                  files |-> [dir.files EXCEPT ![target_file] = on_disk],
                  backups |-> [dir.backups EXCEPT ![target_file] = NoFile],
                  eng |-> new_eng,
                  wrote |-> refined_content]

\* Entries of the memory directory besides the four files and their
\* backups: the index storage (Chroma's database file and a collection
\* directory named by a UUID) and a file nobody of the service wrote.
IndexStorage == {"chroma.sqlite3", "0b5c3f1e-8a4d-4c1b-9e55-2f6a7d3c9b10"}
DirEntries == IndexStorage \cup {"notes.txt"}

\* app.py 722: the order reset_memory writes the templates in.
ResetOrder == <<"Budget.md", "Goals.md", "Behavior.md", "State.md">>

ResetWriteFaults == {"none", "Goals.md", "State.md"}

\* app.py 721-739: the files after the loop that stops at the write that
\* raises.
RECURSIVE ResetFiles(_, _, _)
ResetFiles(store, i, write_fault) ==
    IF i > Len(ResetOrder) \/ ResetOrder[i] = write_fault THEN store
    ELSE ResetFiles([store EXCEPT ![ResetOrder[i]] = MEMORY_TEMPLATES[ResetOrder[i]]],
                    i + 1, write_fault)

\* app.py 700-792: reset_memory on the directory dir = [files, backups,
\* entries] and the engine; remove_ok tells whether os.remove and
\* shutil.rmtree succeed.
reset_memory(dir, engine, write_fault, remove_ok, reindex_fault) ==
    LET written == ResetFiles(dir.files, 1, write_fault)
    IN IF write_fault # "none"
       THEN [status |-> "error", files |-> written, backups |-> dir.backups,
             entries |-> dir.entries, eng |-> engine]
       ELSE [status |-> "success", files |-> written, backups |-> dir.backups,
             entries |-> IF remove_ok THEN dir.entries \ IndexStorage
                         ELSE dir.entries,
             eng |-> reindex_memory(engine, written, reindex_fault).eng]

StLast(op, ok, fault, update, wrote, snippets, before) ==
    [op |-> op, ok |-> ok, fault |-> fault, update |-> update, wrote |-> wrote,
     snippets |-> snippets, before |-> before]

MaxOps == 2

\* Behavior.md with five observations under Observed Behaviors.
FullBehavior ==
    <<H1("Spending Patterns"), Blank,
      H2("Observed Behaviors"), Bullet(<<"skips reviews">>),
      Bullet(<<"shops on payday">>), Bullet(<<"buys gadgets on impulse">>),
      Bullet(<<"returns half of what arrives">>),
      Bullet(<<"buys late at night">>), Blank,
      H2("High-Risk Triggers"),
      Bullet(<<"Late night shopping (after 11 PM)">>), Blank,
      H2("Last Updated"), Bullet(<<TIMESTAMP>>), Blank>>

StStores ==
    {MEMORY_TEMPLATES,
     [MEMORY_TEMPLATES EXCEPT !["Behavior.md"] = FullBehavior],
     [MEMORY_TEMPLATES EXCEPT !["Behavior.md"] = GrownBehavior],
     [MEMORY_TEMPLATES EXCEPT !["Behavior.md"] = NoFile,
                              !["Goals.md"] = <<Blank>>]}

\* The content without the section of that title (its header and the lines
\* up to the next section header).
DropSection(content, title) ==
    IF \E i \in 1..Len(content) : content[i] = H2(title)
    THEN LET start == CHOOSE i \in 1..Len(content) : content[i] = H2(title)
             later == {j \in (start + 1)..Len(content) : content[j].kind = "h2"}
             stop == IF later = {} THEN Len(content) + 1
                     ELSE CHOOSE j \in later : \A k \in later : j <= k
         IN SubSeq(content, 1, start - 1) \o SubSeq(content, stop, Len(content))
    ELSE content

\* memory.py 770-793: a reply that follows the consolidation rules: the new
\* observation merged in, the section that repeats an observation and the
\* section that records nothing removed.
Consolidated(current_content, new_observation) ==
    Merged(DropSection(DropSection(current_content, "Spending Patterns"),
                       "Positive Patterns"),
           new_observation)

\* The outcomes of the refining LLM for a call with that fault: it raises
\* when the fault is its own, answers anything when there is no fault, and
\* answers the merged file when another step fails.
StReplies(current_content, new_observation, fault) ==
    CASE fault = "refine" -> {[kind |-> "raise", content |-> <<>>]}
      [] fault = "none" ->
            (RefineReplies(current_content, new_observation)
                \ {[kind |-> "raise", content |-> <<>>]})
            \cup {[kind |-> "refined_content",
                   content |-> Consolidated(current_content, new_observation)]}
      [] OTHER -> {[kind |-> "refined_content",
                    content |-> Merged(current_content, new_observation)]}

StUpdates == {<<"prefers sneakers">>, <<"Saving for", " ", "a laptop">>, <<" ">>}

StInit ==
    /\ files \in StStores
    /\ memory_engine = NewEngine
    /\ backups \in {NoBackups, [NoBackups EXCEPT !["Goals.md"] = <<Blank>>]}
    /\ dir_entries = DirEntries
    /\ st_last = StLast("none", FALSE, "none", <<>>, <<>>, {}, files)
    /\ st_ops = 0
    /\ FnParked
    /\ GwParked
    /\ KParked
    /\ PlParked
    /\ MParked
    /\ ApParked

\* A call of apply_memory_update.
StApply(memory_update, reply, fault) ==
    LET r == apply_memory_update_io([files |-> files, backups |-> backups],
                                    memory_engine, memory_update, reply, fault)
    IN /\ st_ops < MaxOps
       /\ files' = r.files
       /\ backups' = r.backups
       /\ memory_engine' = r.eng
       /\ st_last' = StLast("apply", r.ok, fault, memory_update, r.wrote, {},
                            files)
       /\ st_ops' = st_ops + 1
       /\ UNCHANGED <<fnVars, apVars, dir_entries, gwVars, kVars, plVars, mVars>>

\* POST /reset-memory.
StReset(write_fault, remove_ok, reindex_fault) ==
    LET r == reset_memory([files |-> files, backups |-> backups,
                           entries |-> dir_entries],
                          memory_engine, write_fault, remove_ok, reindex_fault)
    IN /\ st_ops < MaxOps
       /\ files' = r.files
       /\ backups' = r.backups
       /\ dir_entries' = r.entries
       /\ memory_engine' = r.eng
       /\ st_last' = StLast("reset", r.status = "success", reindex_fault,
                            <<>>, <<>>, {}, files)
       /\ st_ops' = st_ops + 1
       /\ UNCHANGED <<fnVars, apVars, gwVars, kVars, plVars, mVars>>

\* app.py 206 and 311: the reindex at startup and of POST /sync-memory.
StReindex(fault) ==
    LET r == reindex_memory(memory_engine, files, fault)
    IN /\ st_ops < MaxOps
       /\ memory_engine' = r.eng
       /\ st_last' = StLast("reindex", r.ok, fault, <<>>, <<>>, {}, files)
       /\ st_ops' = st_ops + 1
       /\ UNCHANGED <<fnVars, apVars, files, backups, dir_entries, gwVars, kVars, plVars, mVars>>

\* A call of retrieve_context.
StRetrieve(outcome) ==
    /\ st_ops < MaxOps
    /\ memory_engine' = outcome.eng
    /\ st_last' = StLast("retrieve", outcome.similarity.ok, "none", <<>>, <<>>,
                         retrieve_context(files, outcome.similarity), files)
    /\ st_ops' = st_ops + 1
    /\ UNCHANGED <<fnVars, apVars, files, backups, dir_entries, gwVars, kVars, plVars, mVars>>

StNext ==
    \/ \E memory_update \in StUpdates, fault \in ApplyFaults :
          \E reply \in
               IF memory_update # <<>>
                  /\ files[determine_target_file(memory_update)] # NoFile
                  /\ UsesRefinement(files[determine_target_file(memory_update)])
               THEN StReplies(files[determine_target_file(memory_update)],
                              memory_update, fault)
               ELSE IF fault = "refine" THEN {}
               ELSE {[kind |-> "raise", content |-> <<>>]} :
             StApply(memory_update, reply, fault)
    \/ \E write_fault \in ResetWriteFaults, remove_ok \in BOOLEAN,
          reindex_fault \in ReindexFaults :
             StReset(write_fault, remove_ok, reindex_fault)
    \/ \E fault \in ReindexFaults : StReindex(fault)
    \/ \E outcome \in SimilarityOutcomes(memory_engine, files) : StRetrieve(outcome)

SpecStore == StInit /\ [][StNext]_vars

(***************************************************************************)
(* The mutator's choice of write path: apply_memory_update called on a     *)
(* directory whose Behavior.md holds few or many observations              *)
(***************************************************************************)

\* A Behavior.md with k observations under Observed Behaviors and five
\* recorded triggers, with or without the placeholder bullet left under
\* Spending Patterns.
ManyTriggers(k, in_patterns) ==
    <<H1("Spending Patterns"), Blank, H2("Observed Behaviors")>>
    \o SubSeq(Observations, 1, k)
    \o <<Blank, H2("Spending Patterns"),
         Bullet(IF in_patterns THEN <<PLACEHOLDER>> ELSE <<"shops on payday">>),
         Blank, H2("High-Risk Triggers"),
         Bullet(<<"Late night shopping (after 11 PM)">>),
         Bullet(<<"Flash sale websites">>), Bullet(<<"Free shipping">>),
         Bullet(<<"Countdown timers">>), Bullet(<<"One-click checkout">>), Blank,
         H2("Last Updated"), Bullet(<<TIMESTAMP>>), Blank>>

\* The Behavior.md contents the calls start from: at most seven observations
\* (the template, FullBehavior) and more than seven.
WpContents ==
    {MEMORY_TEMPLATES["Behavior.md"], FullBehavior, GrownBehavior}
    \cup {ManyTriggers(k, in_patterns) : k \in {0, 2, 5}, in_patterns \in BOOLEAN}

WpUpdates == {<<"prefers sneakers">>, <<"skips reviews">>}

MaxWrites == 2

\* No call to the refining LLM was made.
NoCall == [kind |-> "nocall", content |-> <<>>]

WpInit ==
    /\ files \in {[MEMORY_TEMPLATES EXCEPT !["Behavior.md"] = c] : c \in WpContents}
    /\ wp_last = [n |-> 0]
    /\ ch_content = <<>>
    /\ ch_chunks = [returned |-> FALSE, chunks |-> <<>>]
    /\ rt_update = <<>>
    /\ rt_target = "none"
    /\ GwParked
    /\ KParked
    /\ PlParked
    /\ MParked
    /\ StParked
    /\ ApParked

\* memory.py 970-1036: one call of apply_memory_update; the LLM is asked only
\* on the refinement path.
WpApply(memory_update, reply) ==
    /\ wp_last.n < MaxWrites
    /\ LET target_file == determine_target_file(memory_update)
           result == apply_memory_update(files, memory_update, reply)
       IN /\ files' = result.files
          /\ wp_last' = [n |-> wp_last.n + 1, ok |-> result.ok,
                         target_file |-> target_file,
                         before |-> files[target_file],
                         memory_update |-> memory_update, reply |-> reply]
    /\ UNCHANGED <<ch_content, ch_chunks, rt_update, rt_target, apVars, stVars,
                   gwVars, kVars, plVars, mVars>>

WpNext ==
    \E memory_update \in WpUpdates :
       \E reply \in
            IF files[determine_target_file(memory_update)] # NoFile
               /\ UsesRefinement(files[determine_target_file(memory_update)])
            THEN RefineReplies(files[determine_target_file(memory_update)],
                               memory_update)
            ELSE {NoCall} :
          WpApply(memory_update, reply)

SpecWritePath == WpInit /\ [][WpNext]_vars

(***************************************************************************)
(* The chunker on its own: _chunk_markdown applied to a section of short   *)
(* and long lines                                                          *)
(***************************************************************************)

\* A line of running text.
Para(text) == [kind |-> "para", text |-> text]

\* The lines a section is made of: blank lines, a bullet, and lines of 120,
\* 499 and 700 characters.
ChLines ==
    {Blank, Bullet(<<"skips reviews">>), Para(<<"<text of 120 characters>">>),
     Para(<<"<text of 499 characters>">>), Para(<<"<text of 700 characters>">>)}

MaxSectionLines == 3

\* One section under its header, of up to MaxSectionLines lines, and the
\* same section with four lines of 120 characters before them.
ChContents ==
    LET bodies == UNION {[1..n -> ChLines] : n \in 1..MaxSectionLines}
        filler == [i \in 1..4 |-> Para(<<"<text of 120 characters>">>)]
    IN {<<H2("Observed Behaviors")>> \o body : body \in bodies}
       \cup {<<H2("Observed Behaviors")>> \o filler \o body : body \in bodies}

ChInit ==
    /\ ch_content \in ChContents
    /\ ch_chunks = [returned |-> FALSE, chunks |-> <<>>]
    /\ wp_last = "none"
    /\ rt_update = <<>>
    /\ rt_target = "none"
    /\ GwParked
    /\ KParked
    /\ PlParked
    /\ FilesParked
    /\ MParked
    /\ StParked
    /\ ApParked

\* memory.py 361-437: one call of _chunk_markdown.
ChChunk ==
    /\ ~ch_chunks.returned
    /\ ch_chunks' = [returned |-> TRUE,
                     chunks |-> chunk_markdown(ch_content, "Behavior.md")]
    /\ UNCHANGED <<ch_content, wp_last, rt_update, rt_target, apVars, stVars,
                   gwVars, kVars, plVars, files, mVars>>

ChNext == ChChunk

SpecChunk == ChInit /\ [][ChNext]_vars

(***************************************************************************)
(* The router on its own: _determine_target_file applied to update texts   *)
(***************************************************************************)

\* The pieces the update texts are made of: with a goal keyword, with a
\* budget keyword, with a state keyword, with none, in either case.
RtTokens ==
    {"Saving for", "goals", "over budget", "Budget", "savings", "balance",
     "prefers sneakers", " "}

MaxUpdateLen == 3

\* The update texts, the empty one among them.
RtUpdates == UNION {[1..n -> RtTokens] : n \in 0..MaxUpdateLen}

RtInit ==
    /\ rt_update \in RtUpdates
    /\ rt_target = "none"
    /\ wp_last = "none"
    /\ ch_content = <<>>
    /\ ch_chunks = [returned |-> FALSE, chunks |-> <<>>]
    /\ GwParked
    /\ KParked
    /\ PlParked
    /\ FilesParked
    /\ MParked
    /\ StParked
    /\ ApParked

\* memory.py 720-755: one call of _determine_target_file.
RtRoute ==
    /\ rt_target = "none"
    /\ rt_target' = determine_target_file(rt_update)
    /\ UNCHANGED <<rt_update, wp_last, ch_content, ch_chunks, apVars, stVars,
                   gwVars, kVars, plVars, files, mVars>>

RtNext == RtRoute

SpecRouter == RtInit /\ [][RtNext]_vars

(***************************************************************************)
(* Gateway claims                                                          *)
(***************************************************************************)

GwIndices == 1..Len(gw_log)

GwRequestsSent == Cardinality({i \in GwIndices : gw_log[i].sent})

\* The iteration met a 429 whose Retry-After is absent or a number.
GwRateLimited(e) ==
    e.resp.kind = "r429" /\ e.resp.retry_after.form # "date"

\* The iteration is a success: a 200 whose text parses.
GwSucceeded(e) == e.resp.kind = "text" /\ ParseText(e.resp).ok

\* C7: a 429 does not consume an attempt: a call that met only 429s and
\* retryable failures gives up after exactly five non-429 failures, however
\* many 429 responses were interleaved.
C7_RateLimitKeepsAttempts ==
    (/\ gw_pc = "raised"
     /\ \A i \in GwIndices :
           gw_log[i].resp.kind # "r403"
           /\ (gw_log[i].resp.kind = "r429" => GwRateLimited(gw_log[i])))
    => Cardinality({i \in GwIndices : gw_log[i].resp.kind # "r429"})
          = Len(delays)

\* C8: a 403 ends the call at once with the typed error of its reason: it is
\* the last request of the call and no sleep follows it.
C8_ForbiddenNotRetried ==
    \A i \in GwIndices :
        gw_log[i].resp.kind = "r403"
        => /\ i = Len(gw_log)
           /\ gw_log[i].slept = 0
           /\ gw_pc = "raised"
           /\ gw_result = Error403(gw_log[i].resp.reason)

\* The call met only transport errors, malformed JSON and successes.
GwPlainLog == \A i \in GwIndices : gw_log[i].resp.kind \in {"transport", "text"}

\* C9: over transport errors, malformed JSON and successes, attempt i+1 is
\* sent only after attempt i failed and the i-th delay was slept; the call
\* returns the parsed value at the first success k having sent k requests;
\* after the fifth failure it raises the last error, with no sixth request
\* and no further sleep.
C9_RetrySchedule ==
    GwPlainLog =>
      /\ Len(gw_log) <= Len(delays)
      /\ GwRequestsSent = Len(gw_log)
      /\ \A i \in GwIndices :
            i < Len(gw_log) =>
               ~GwSucceeded(gw_log[i]) /\ gw_log[i].slept = delays[i]
      /\ gw_pc = "running" =>
            /\ Len(gw_log) < Len(delays)
            /\ gw_result = "none"
            /\ Len(gw_log) > 0 =>
                  /\ ~GwSucceeded(gw_log[Len(gw_log)])
                  /\ gw_log[Len(gw_log)].slept = delays[Len(gw_log)]
      /\ gw_pc = "returned" =>
            /\ GwSucceeded(gw_log[Len(gw_log)])
            /\ gw_result = gw_log[Len(gw_log)].resp.value
            /\ gw_log[Len(gw_log)].slept = 0
      /\ gw_pc = "raised" =>
            /\ Len(gw_log) = Len(delays)
            /\ ~GwSucceeded(gw_log[Len(gw_log)])
            /\ gw_log[Len(gw_log)].slept = 0
            /\ gw_result = GwTryBody(gw_log[Len(gw_log)].resp, 0).error

\* C9 witness: a transport error, then malformed JSON, then a success.
C9_Witness ==
    /\ gw_pc = "returned"
    /\ Len(gw_log) = 3
    /\ gw_log[1].resp.kind = "transport"
    /\ gw_log[2].resp.kind = "text" /\ ~GwSucceeded(gw_log[2])
    /\ gw_log[1].slept = 2 /\ gw_log[2].slept = 5

GwEnded == gw_pc \in {"returned", "raised"}

\* C30: whatever the server answers, 429s without end and any mix of 429,
\* 403, transport errors and unparsable text included, the call ends, by
\* returning or by raising, and it has then sent at most five requests.
C30_EndsWithinFiveRequests ==
    /\ [](GwRequestsSent <= 5)
    /\ [](gw_pc = "running" => Len(gw_log) < 5)
    /\ <>GwEnded

\* A call that met five 429 responses in a row has ended.
C30_Witness ==
    /\ GwEnded
    /\ GwRequestsSent = 5
    /\ \A i \in GwIndices : gw_log[i].resp.kind = "r429"

(***************************************************************************)
(* Kernel claims                                                           *)
(***************************************************************************)

\* C3: get_intervention_level(p) is NONE for p < 0.3, MIRROR for
\* 0.3 <= p < 0.6, COOLDOWN for 0.6 <= p < 0.85 and PHRASE for p >= 0.85.
C3_InterventionMapping ==
    k_pc = "done" =>
        k_level = (IF k_p < 300 THEN "NONE"
                   ELSE IF k_p < 600 THEN "MIRROR"
                   ELSE IF k_p < 850 THEN "COOLDOWN"
                   ELSE "PHRASE")

BehaviouralFeatures ==
    {"scroll_velocity", "click_rate", "time_on_site", "time_to_cart"}

HasStats(baseline_data, f) ==
    f \in DOMAIN baseline_data /\ {"mean", "std"} \subseteq DOMAIN baseline_data[f]

\* C18: constructing the kernel fails only when one of scroll_velocity,
\* click_rate, time_on_site and time_to_cart is missing from the baseline or
\* lacks mean or std; a baseline with exactly those four succeeds.
C18_FourFeaturesSuffice ==
    k_pc = "failed" => \E f \in BehaviouralFeatures : ~HasStats(k_baseline, f)

\* C19: for every telemetry within the type constraints (time_to_cart of
\* any value or absent) calculate_p_impulse returns a value p with
\* 0 <= p <= 1.
C19_ScoreBounded ==
    /\ k_pc # "raised"
    /\ k_pc = "scored" => 0 <= k_p /\ k_p <= 1000

\* A score of a telemetry without time_to_cart whose weighted sum, late at
\* night on a gambling site, exceeds 1 before the clamp.
C19_Witness ==
    /\ k_pc = "scored"
    /\ "time_to_cart" \notin DOMAIN k_data
    /\ k_data.website_name = "online-casino.com"
    /\ k_data.system_time = 3
    /\ k_data.emotion_arousal = 1000
    /\ k_p = 1000


(***************************************************************************)
(* Pipeline and reasoner claims, checked under SpecPipeline                *)
(***************************************************************************)

ResponseFields ==
    {"p_impulse_fast", "fast_brain_intervention", "fast_brain_dominant_trigger",
     "impulse_score", "confidence", "reasoning", "intervention_action",
     "memory_update"}

InterventionNames == {"NONE", "MIRROR", "COOLDOWN", "PHRASE"}

InUnit(x) == 0 <= x /\ x <= 1000

Responded == pl_pc = "responded"

AfterReasoning == pl_pc \in {"reasoned", "applied", "responded"}

\* C1: every request served gets a 2xx response with the eight fields, and
\* p_impulse_fast, impulse_score and confidence lie in [0, 1], whatever
\* failed on the way.
C1_AlwaysResponds ==
    Responded =>
        /\ pl_response.status = 200
        /\ DOMAIN pl_response.body = ResponseFields
        /\ InUnit(pl_response.body.p_impulse_fast)
        /\ InUnit(pl_response.body.impulse_score)
        /\ InUnit(pl_response.body.confidence)

\* A request whose reasoned response failed PipelineResponse's validation
\* (the LLM's reasoning was no string) and was answered all the same.
C1_Witness ==
    /\ Responded
    /\ pl_outcome.kind = "return"
    /\ ~pl_verdict.reasoning.str
    /\ pl_response.status = 200
    /\ pl_response.body.confidence = 500

\* C2: in every response both fast_brain_intervention and
\* intervention_action are one of NONE, MIRROR, COOLDOWN, PHRASE.
C2_InterventionNames ==
    (Responded /\ pl_response.status = 200) =>
        /\ pl_response.body.fast_brain_intervention \in InterventionNames
        /\ pl_response.body.intervention_action \in InterventionNames

\* C4: when the reasoner's gateway call fails, the response is 2xx with
\* impulse_score = p_impulse_fast, confidence 0.3, no memory update, and the
\* intervention of the fast stage as intervention_action.
C4_DegradedResponse ==
    (Responded /\ pl_outcome.kind = "raise") =>
        /\ pl_response.status = 200
        /\ pl_response.body.impulse_score = pl_response.body.p_impulse_fast
        /\ pl_response.body.confidence = 300
        /\ pl_response.body.memory_update = NullUpdate
        /\ pl_response.body.intervention_action
               = pl_response.body.fast_brain_intervention

\* C5: when the gateway call raises, reason_with_gemini returns the fallback
\* verdict (the fast score, confidence 0.3, NONE, no update) and the memory
\* mutator is not called for the request.
C5_FallbackVerdict ==
    (AfterReasoning /\ pl_outcome.kind = "raise") =>
        /\ pl_verdict.impulse_score = pl_fast.p
        /\ pl_verdict.confidence = 300
        /\ pl_verdict.intervention_action = "NONE"
        /\ pl_verdict.memory_update = NullUpdate
        /\ pl_verdict.reasoning.str
        /\ pl_applied = <<>>
        /\ pl_pc # "applied"

\* The handler has answered a request whose gateway call raised.
C5_Witness ==
    /\ Responded
    /\ pl_outcome.kind = "raise"
    /\ pl_fast.p >= 300
    /\ pl_applied = <<>>

Trimmed(text) ==
    /\ text # <<>>
    /\ Head(text) \notin Whitespace
    /\ text[Len(text)] \notin Whitespace

\* C6: whatever JSON value the LLM returns, the verdict has impulse_score
\* and confidence in [0, 1], an intervention_action among the four names,
\* and a memory_update that is null or a non-empty trimmed string.
C6_VerdictWellFormed ==
    (AfterReasoning /\ pl_outcome.kind = "return") =>
        /\ InUnit(pl_verdict.impulse_score)
        /\ InUnit(pl_verdict.confidence)
        /\ pl_verdict.intervention_action \in InterventionNames
        /\ \/ pl_verdict.memory_update = NullUpdate
           \/ /\ pl_verdict.memory_update.t = "str"
              /\ Trimmed(pl_verdict.memory_update.text)

\* A reply with a lower-case action and a padded update, normalised.
C6_Witness ==
    /\ pl_pc = "reasoned"
    /\ pl_outcome.kind = "return"
    /\ pl_outcome.value.intervention_action.s = "mirror"
    /\ pl_outcome.value.memory_update.text = <<" ", "buys late at night", "\n">>
    /\ pl_verdict.intervention_action = "MIRROR"
    /\ pl_verdict.memory_update.text = <<"buys late at night">>

\* C17: when the scoring kernel raises during pipeline_analyze, the response
\* is the complete fallback: p_impulse_fast 0.5, fast_brain_intervention
\* MIRROR, fast_brain_dominant_trigger "error", impulse_score 0.5,
\* intervention_action MIRROR, confidence 0.3 and no memory_update.
C17_CompleteFallback ==
    (Responded /\ ~pl_fast.ok) =>
        /\ pl_response.status = 200
        /\ pl_response.body.p_impulse_fast = 500
        /\ pl_response.body.fast_brain_intervention = "MIRROR"
        /\ pl_response.body.fast_brain_dominant_trigger = "error"
        /\ pl_response.body.impulse_score = 500
        /\ pl_response.body.intervention_action = "MIRROR"
        /\ pl_response.body.confidence = 300
        /\ pl_response.body.memory_update.t = "null"
        /\ pl_snippets = {}
        /\ pl_applied = <<>>

\* The kernel raised on a request and the handler has answered.
C17_Witness ==
    /\ Responded
    /\ ~pl_fast.ok
    /\ pl_req \in Requests
    /\ pl_response.status = 200

\* C24: one request goes through its stages in a fixed order: retrieval
\* starts from the fast score, the reasoner runs only once retrieval has
\* returned, the mutator runs at most once and only on a verdict whose
\* memory_update is not null, and the response of the slow path is sent only
\* when the reasoner has returned and, for such a verdict, the mutator too.
C24_StageOrder ==
    [][/\ pl_pc' = "retrieved" => pl_pc = "scored" /\ pl_fast.ok
       /\ pl_pc' = "reasoned" => pl_pc = "retrieved"
       /\ (pl_applied' # pl_applied \/ files' # files) =>
             /\ pl_pc = "reasoned" /\ pl_pc' = "applied"
             /\ pl_applied = <<>>
             /\ pl_verdict.memory_update.t = "str"
             /\ pl_applied' = <<pl_verdict.memory_update.text>>
       /\ (pl_pc' = "responded" /\ pl_pc \in {"reasoned", "applied"}) =>
             /\ pl_response' = SlowReturn(pl_fast, pl_verdict)
             /\ pl_verdict.memory_update.t = "str" =>
                    pl_applied = <<pl_verdict.memory_update.text>>
       /\ (pl_pc' = "responded" /\ pl_pc \notin {"reasoned", "applied"}) =>
             pl_pc = "idle" /\ pl_snippets = {} /\ pl_applied = <<>>]_vars

C24_Witness ==
    /\ pl_pc = "responded"
    /\ pl_snippets # {}
    /\ pl_verdict.memory_update.t = "str"
    /\ pl_applied = <<pl_verdict.memory_update.text>>
    /\ pl_response = SlowReturn(pl_fast, pl_verdict)

\* The update the response reports.
ReportedUpdate == pl_response.body.memory_update

\* C28: a response of the slow path that reports a memory_update reports one
\* the mutator applied: the file it was routed to holds the update text when
\* the response is built.  An update that was dropped, or routed to a
\* missing file, or whose write failed, is reported as null.
C28_ReportedUpdateApplied ==
    (pl_pc = "responded" /\ pl_response.status = 200
        /\ ReportedUpdate.t = "str") =>
        ContainsUpdate(files[determine_target_file(ReportedUpdate.text)],
                       ReportedUpdate.text)

(***************************************************************************)
(* Concurrency claims, checked under SpecMemory                            *)
(***************************************************************************)

\* C10: once a mutator call has returned after writing update u to a file,
\* every request initiated afterwards reads a content of that file which
\* contains u, whatever the other requests and the sweep do in between.
C10_UpdateVisible ==
    m_seen.read =>
        \A u \in m_seen.must :
            ContainsUpdate(m_seen.store[determine_target_file(u)], u)

\* The writers of file f that have read its content and not yet written:
\* mutator calls suspended in the refinement and the sweep suspended in its
\* gateway call for f.
InFlightWriters(f) ==
    {r \in Mutators :
        m_pc[r] = "refining" /\ determine_target_file(m_update[r]) = f}
    \cup (IF sw_pc = "awaiting" /\ memory_files[sw_at] = f
          THEN {"sweep"} ELSE {})

\* C11: writes to one memory file are serialized: never are two writers of
\* the same file both between their read of its content and their write.
C11_WritesSerialized ==
    \A f \in FileNames : Cardinality(InFlightWriters(f)) <= 1
(***************************************************************************)
(* Memory directory and index claims, checked under SpecStore              *)
(***************************************************************************)

\* The last handler was apply_memory_update, it got as far as composing the
\* new content, and the given step of it failed.
Applied(fault) ==
    st_last.op = "apply" /\ st_last.fault = fault /\ st_last.wrote # <<>>

AppliedTarget == determine_target_file(st_last.update)

\* C12: when the read-back after the write differs from the content written,
\* apply_memory_update restores the file from the backup and returns failure.
C12_VerifyMismatchRestores ==
    Applied("verify_differs") => ~st_last.ok /\ files = st_last.before

\* C13: when the upsert fails after the file was written, the call still
\* reports success: the file holds the new content, the backup is removed
\* and nothing is rolled back.
C13_UpsertFailureKeepsWrite ==
    Applied("upsert") =>
        /\ st_last.ok
        /\ files[AppliedTarget] = st_last.wrote
        /\ backups[AppliedTarget] = NoFile

\* An update was written whose chunks the failing upsert should have stored.
C13_Witness ==
    /\ Applied("upsert")
    /\ chunk_markdown(st_last.wrote, AppliedTarget) # <<>>
    /\ st_last.wrote # st_last.before[AppliedTarget]
    /\ memory_engine.index[AppliedTarget] # <<>>
    /\ st_last.ok

ResetSucceeded == st_last.op = "reset" /\ st_last.ok

\* C14: after a reset the memory directory holds the four memory files and
\* nothing else (no index storage, no .backup file, no other entry), and
\* each file holds exactly its template.
C14_ResetLeavesOnlyTemplates ==
    ResetSucceeded =>
        /\ files = MEMORY_TEMPLATES
        /\ dir_entries = {}
        /\ \A f \in FileNames : backups[f] = NoFile

\* C15: after a reset that reports success the index holds exactly the
\* chunks of the four templates, and none of the content before the reset.
C15_ResetIndexIsTemplates ==
    ResetSucceeded =>
        \A f \in FileNames :
            memory_engine.index[f] = chunk_markdown(MEMORY_TEMPLATES[f], f)

FullFile(f, source) ==
    [content |-> StripContent(files[f]), file |-> f, section |-> <<"FULL FILE">>,
     part |-> 0, source |-> source]

NonEmptyFile(f) ==
    files[f] # NoFile /\ \E i \in 1..Len(files[f]) : files[f][i].kind # "blank"

Upserting ==
    /\ Applied("none") /\ st_last.ok
    /\ st_last.before[AppliedTarget] # NoFile
    /\ memory_engine.coll_exists

\* C23: after a successful apply whose upsert succeeded, the index entries of
\* the target file are exactly the chunks of the content now on disk, at the
\* ids <file>_<ordinal>, with no entry left over from the content before,
\* also when the new content has fewer chunks than the index held.
C23_IndexIsNewChunks ==
    Upserting =>
        memory_engine.index[AppliedTarget] =
            chunk_markdown(files[AppliedTarget], AppliedTarget)

\* C25: a reindex_memory that fails at any step returns False and leaves the
\* store marked not-indexed, also when an earlier reindex had succeeded.
C25_FailedReindexUnmarks ==
    (st_last.op = "reindex" /\ ~st_last.ok) => ~memory_engine.indexed

\* A call of apply_memory_update that took its backup and in which that
\* step failed.
AppliedWithFault(faults) ==
    /\ st_last.op = "apply"
    /\ st_last.fault \in faults
    /\ Strip(st_last.update) # <<>>
    /\ st_last.before[AppliedTarget] # NoFile

RestoredAndFailed ==
    /\ ~st_last.ok
    /\ files[AppliedTarget] = st_last.before[AppliedTarget]
    /\ backups[AppliedTarget] = NoFile

NoBackupAfterSuccess ==
    (st_last.op = "apply" /\ st_last.ok) => backups[AppliedTarget] = NoFile

ObservedLines(content) ==
    LET headers == {i \in 1..Len(content) :
                       content[i] = H2("Observed Behaviors")}
        start == CHOOSE i \in headers : \A j \in headers : i <= j
        later == {i \in (start + 1)..Len(content) : content[i].kind = "h2"}
        stop == IF later = {} THEN Len(content) + 1
                ELSE CHOOSE i \in later : \A j \in later : i <= j
    IN IF headers = {} THEN {} ELSE (start + 1)..(stop - 1)

\* The observations of that section: its bullets other than the placeholder.
ObservedCount(content) ==
    Cardinality({i \in ObservedLines(content) :
                    /\ content[i].kind = "bullet"
                    /\ content[i].text # <<PLACEHOLDER>>})

\* C20: over any sequence of simple appends on a content whose Observed
\* Behaviors section starts with at most five observations, the section
\* never holds more than five; an update that finds five is dropped and the
\* content comes back unchanged.
C20_ObservedAtMostFive ==
    /\ ObservedCount(ap_content) <= 5
    /\ (ap_n > 0 /\ ObservedCount(ap_prev) = 5) => ap_content = ap_prev

\* The lines that hold the placeholder text.
PlaceholderCount(content) ==
    Cardinality({i \in 1..Len(content) :
                    \E j \in 1..Len(content[i].text) :
                        content[i].text[j] = PLACEHOLDER})

\* C21: a simple append to a content that holds the placeholder, once or
\* several times, replaces only its first occurrence by the new bullet: one
\* placeholder less and one observation more.
C21_FirstPlaceholderOnly ==
    (ap_n > 0 /\ PlaceholderCount(ap_prev) > 0) =>
        /\ PlaceholderCount(ap_content) = PlaceholderCount(ap_prev) - 1
        /\ count_observations(ap_content) = count_observations(ap_prev) + 1
(***************************************************************************)
(* Write-path claims, checked under SpecWritePath                          *)
(***************************************************************************)

WpCalled == wp_last.n > 0 /\ wp_last.ok

\* The content the simple append writes for the last call.
WpSimple ==
    UpdateTimestamp(simple_append_update(wp_last.before, wp_last.memory_update))

\* The content the refining LLM sent, and whether it is non-empty and differs
\* from the content read.
WpLlmContent == wp_last.reply.content

WpLlmUsable ==
    /\ wp_last.reply.kind \in {"refined_content", "content", "string"}
    /\ StripContent(WpLlmContent) # <<>>
    /\ StripContent(WpLlmContent) # StripContent(wp_last.before)

\* C22: with at most seven observations in the content read, the call asks no
\* LLM and writes the simple-append result; with more, it asks the LLM and
\* writes the LLM's content only if that is non-empty and differs from the
\* content read, and the simple-append result otherwise.
C22_WritePathByCount ==
    WpCalled =>
        IF count_observations(wp_last.before) <= REFINEMENT_THRESHOLD
        THEN /\ wp_last.reply = NoCall
             /\ files[wp_last.target_file] = WpSimple
        ELSE /\ wp_last.reply # NoCall
             /\ files[wp_last.target_file] \in
                    {UpdateTimestamp(WpLlmContent), WpSimple}
             /\ ~WpLlmUsable => files[wp_last.target_file] = WpSimple
(***************************************************************************)
(* Chunker claims, checked under SpecChunk                                 *)
(***************************************************************************)

\* tests/test_memory_extended.py 73: the slack the size check allows.
CHUNK_TOLERANCE == 100

\* C26: every chunk _chunk_markdown returns has a content that is not empty
\* once stripped and that is at most MAX_CHUNK_SIZE + CHUNK_TOLERANCE
\* characters long, also for a section that is split and holds blank lines
\* or one very long line.
C26_ChunksBounded ==
    ch_chunks.returned =>
        \A i \in 1..Len(ch_chunks.chunks) :
            /\ StripContent(ch_chunks.chunks[i].content) # <<>>
            /\ TextLen(ch_chunks.chunks[i].content)
                   <= MAX_CHUNK_SIZE + CHUNK_TOLERANCE
(***************************************************************************)
(* Router claims, checked under SpecRouter                                 *)
(***************************************************************************)

\* A keyword of that group occurs in the lowercased update.
Mentions(group) == KeywordsOf(rt_update) \cap group # {}

\* C27: the router returns Goals.md when a goal keyword occurs in the update,
\* otherwise Budget.md when a budget keyword occurs, otherwise State.md when
\* a state keyword occurs, and Behavior.md otherwise, the empty update
\* included: the first group that matches wins.
C27_FirstGroupWins ==
    rt_target # "none" =>
        /\ Mentions(goal_keywords) => rt_target = "Goals.md"
        /\ (~Mentions(goal_keywords) /\ Mentions(budget_keywords)) =>
               rt_target = "Budget.md"
        /\ (~Mentions(goal_keywords) /\ ~Mentions(budget_keywords)
               /\ Mentions(state_keywords)) => rt_target = "State.md"
        /\ (~Mentions(goal_keywords) /\ ~Mentions(budget_keywords)
               /\ ~Mentions(state_keywords)) => rt_target = "Behavior.md"
        /\ rt_update = <<>> => rt_target = "Behavior.md"

\* An update that names a budget, a balance and a goal, in that order, went
\* to Goals.md.
C27_Witness ==
    /\ rt_update = <<"over budget", "balance", "Saving for">>
    /\ rt_target = "Goals.md"

============================================================================
